---------------------------- MODULE Spec2Model ----------------------------
(***************************************************************************)
(* lightcode: the interrupt-safe agent loop (run_repl_loop), the two       *)
(* protocol adapters (CompletionClient, ResponsesClient), the cancellable  *)
(* call (run_with_interrupt) and the tool pipeline (execute_tool).         *)
(*                                                                         *)
(* Threads: the main control thread (its position is pc), one worker       *)
(* thread per model call (workers[w].pc; a worker abandoned on interrupt   *)
(* keeps running), and the interrupt sources (Esc monitor thread, SIGINT   *)
(* handler) which set the flag while monitoring is on.                     *)
(***************************************************************************)
EXTENDS Integers, Sequences, FiniteSets, TLC

\* ----------------------------------------------------------------- bounds
\* Model calls (worker threads) started in one run.
MaxWorkers == 2
\* Tool calls the model issues in one run (over all its results).
MaxToolCalls == 2
\* Largest max_turns a subagent session is started with.
MaxTurns == 2
\* Function calls in one response of a subagent session.
MaxSubCalls == 2
\* Longest tool result given to parse_tool_result, in symbols.
MaxLen == 7
\* Monitoring scopes entered in one run.
MaxScopes == 2
\* Largest context size configured or reported by the model metadata, in tokens.
MaxSize == 3
\* Largest number of tokens consumed, in tokens.
MaxCount == 4

VARIABLES
    api,                   \* "completion" (CompletionClient) | "responses" (ResponsesClient)
    skip_permission,       \* ReplConfig.skip_permission
    pc,                    \* position of the main thread in run_repl_loop
    flag,                  \* InterruptHandler._interrupted
    monitoring,            \* InterruptHandler._monitoring
    messages,              \* CompletionClient.messages
    previous_response_id,  \* ResponsesClient.previous_response_id (Null = None)
    pending_tool_outputs,  \* ResponsesClient.pending_tool_outputs
    total_input_tokens,    \* ResponsesClient.total_input_tokens
    total_output_tokens,   \* ResponsesClient.total_output_tokens
    workers,               \* the worker threads of run_with_interrupt
    nw,                    \* number of workers started so far; the current one is nw
    turn,                  \* number of user turns started (the text of turn t is t)
    current_input,         \* run_repl_loop's current_input
    interrupted,           \* run_repl_loop's local `interrupted`
    result,                \* the ApiCallResult the loop is processing
    i,                     \* index of the tool call being handled (enumerate, start=1)
    rwi,                   \* what the last run_with_interrupt delivered to its caller
    req,                   \* the last request submitted to the remote model
    executed,              \* history: ids whose tool execute() was invoked, this batch
    answered,              \* history: ids passed to add_tool_result, this batch
    preGrant,              \* history: ids of this batch for which the flag was set
                           \*   no later than the pre-execution check
    flagWhileRunning,      \* history: the flag was set while the current call's worker
                           \*   had not finished
    firstCall,             \* the next call is the first one of its turn
    prevInterrupted,       \* the previous turn ended interrupted and reset_context ran
    preReset,              \* history: conversation state when reset_context was entered
    issued,                \* number of tool calls the model has issued so far
    lookup,                \* ToolRegistry.execute: result of self._tools.get(name)
    sub_pc,                \* position in SubAgentTool.execute / run_subagent
    config_tools,          \* config.tools of the subagent type asked for
    sub_tools,             \* tools: the tool list built for the subagent session
    max_turns,             \* max_turns of the subagent session
    sub_turn,              \* turn: the loop variable of the subagent session
    last_content,          \* last_content of the subagent session
    tool_left,             \* tool calls of the current response not yet handled
    produced,              \* history: content and number of function calls of
                           \*   every response of the session
    session,               \* the conversation state private to the subagent session
    sub_ret,               \* what SubAgentTool.execute / run_subagent gave back
    text,                  \* parse_tool_result: the argument (a string)
    parsed,                \* parse_tool_result: the value returned
    mon_pc,                \* position of the main thread around the monitoring scope
    sigint,                \* the handler installed for SIGINT
    original_handler,      \* InterruptHandler._original_handler
    esc_monitor,           \* InterruptHandler._esc_monitor (index, Null = None)
    monitors,              \* the EscKeyMonitor objects created so far
    nscopes,               \* number of monitoring scopes entered so far
    term,                  \* the terminal mode of /dev/tty
    left_by,               \* how the body of the last monitoring scope ended
    typed,                 \* the line the last session.prompt() returned
    st_pc,                 \* position of the adapter: not constructed, constructed,
                           \*   or get_status_text raised
    max_input_tokens,      \* config.max_input_tokens
    model_info,            \* what litellm.get_model_info(config.model) does
    max_tokens,            \* self.max_tokens of the adapter
    token_count,           \* the tokens consumed (token_count / total_input_tokens)
    status,                \* what the last get_status_text() did
    sub_result             \* result of the subagent session's tool loop: the text
                           \*   of the last tool execution

\* The variables of the subagent tool and session, and of parse_tool_result.
subvars == <<sub_pc, config_tools, sub_tools, max_turns, sub_turn, last_content, tool_left,
             produced, session, sub_ret>>

parsevars == <<text, parsed>>

\* The variables of the monitoring scope and of the keystroke monitor.
monvars == <<mon_pc, sigint, original_handler, esc_monitor, monitors, nscopes,
             term, left_by>>

\* The variables of the prompt.
promptvars == <<typed>>

\* The variables of the adapter's context budget and status line.
statusvars == <<st_pc, max_input_tokens, model_info, max_tokens, token_count,
                status>>

\* The variables run_repl_loop's model does not read.
\* The result of a tool execution inside a subagent session.
sessvars == <<sub_result>>

sidevars == <<promptvars, statusvars, sessvars>>

auxvars == <<monvars, sidevars>>

\* The variables of run_repl_loop other than the interrupt flag.
loopvars == <<api, skip_permission, pc, monitoring, messages,
              previous_response_id, pending_tool_outputs, total_input_tokens,
              total_output_tokens, workers, nw, turn, current_input,
              interrupted, result, i, rwi, req, executed, answered, preGrant,
              flagWhileRunning, firstCall, prevInterrupted, preReset, issued,
              lookup>>

vars == <<loopvars, flag, subvars, parsevars, auxvars>>

\* The conversation state of the two adapters.
conv == <<messages, previous_response_id, pending_tool_outputs,
          total_input_tokens, total_output_tokens>>

Null == 0

Workers == 1..MaxWorkers

\* ---------------------------------------------------------------- helpers
Last(s) == s[Len(s)]

Front(s) == SubSeq(s, 1, Len(s) - 1)

\* One message of CompletionClient.messages.
Msg(role, content, t, tcs, id) ==
    [role |-> role, content |-> content, turn |-> t, tcs |-> tcs, id |-> id]

\* The id of the k-th tool call of worker w's response (opaque, unique).
CallId(w, k) == w * (MaxToolCalls + 1) + k

\* The tool calls of a response of worker w with n function calls.
ToolCalls(w, n) == [k \in 1..n |-> CallId(w, k)]

NoResult == [text |-> FALSE, tool_calls |-> <<>>, args |-> <<>>]

NoSnapshot == [prev |-> Null, pending |-> <<>>]

NoRequest == [w |-> 0, first |-> FALSE, afterIntr |-> FALSE, prev |-> Null,
              kind |-> "none", outs |-> <<>>, hist |-> <<>>]

NoInput == [kind |-> "none", turn |-> 0, outs |-> <<>>]

\* No line: the prompt has not returned yet, or it raised.
NoLine == <<"none">>

NoOutcome == [kind |-> "none", val |-> 0, exc |-> "none", res |-> NoResult]

\* A worker thread: its position in worker()/client.call(), the input it was
\* started with, whether it was abandoned (st), and the outcome it stored in
\* result_container. Fields nobody reads any more are put back to their
\* defaults.
IdleWorker == [pc |-> "idle", input |-> NoInput, first |-> FALSE,
               afterIntr |-> FALSE, st |-> "live", out |-> NoOutcome]

DoneWorker == [IdleWorker EXCEPT !.pc = "done"]

\* run_repl_loop before its first turn.
LoopInit ==
    /\ api \in {"completion", "responses"}
    /\ skip_permission \in BOOLEAN
    /\ pc = "top"
    /\ flag = FALSE
    /\ monitoring = FALSE
    /\ messages = <<Msg("system", "instructions", 0, <<>>, 0)>>
    /\ previous_response_id = Null
    /\ pending_tool_outputs = <<>>
    /\ total_input_tokens = 0
    /\ total_output_tokens = 0
    /\ workers = [w \in Workers |-> IdleWorker]
    /\ nw = 0
    /\ turn = 0
    /\ current_input = NoInput
    /\ interrupted = FALSE
    /\ result = NoResult
    /\ i = 0
    /\ rwi = NoOutcome
    /\ req = NoRequest
    /\ executed = <<>>
    /\ answered = <<>>
    /\ preGrant = {}
    /\ flagWhileRunning = FALSE
    /\ firstCall = FALSE
    /\ prevInterrupted = FALSE
    /\ preReset = NoSnapshot
    /\ issued = 0
    /\ lookup = "none"
    /\ typed = NoLine

\* What SubAgentTool.execute or run_subagent gives back: a text of the model
\* (n: the turn that produced it), a fixed text, or an exception.
Ret(kind, what, n) == [kind |-> kind, what |-> what, n |-> n]

NoReturn == Ret("none", "", 0)

\* The locals of a subagent session that hold its conversation: messages
\* (stateless history), previous_response_id and tool_outputs (stateful chain).
NoSession == [messages |-> <<>>, previous_response_id |-> Null,
              tool_outputs |-> <<>>]

\* No subagent tool call is in progress.
SubIdle ==
    /\ sub_pc = "idle"
    /\ config_tools = {}
    /\ sub_tools = {}
    /\ max_turns = 0
    /\ sub_turn = 0
    /\ last_content = Null
    /\ tool_left = 0
    /\ produced = <<>>
    /\ session = NoSession
    /\ sub_ret = NoReturn
    /\ sub_result = "none"

\* parse_tool_result has not been called.
NotParsed == [kind |-> "none", mime_type |-> <<>>, base64_data |-> <<>>,
              text |-> <<>>]

ParseIdle ==
    /\ text = <<>>
    /\ parsed = NotParsed

\* EscKeyMonitor.__init__: nothing started, no descriptor, no thread.
NewMonitor == [started |-> FALSE, stop_event |-> FALSE, tty_fd |-> "none",
               thread |-> "none", old_settings |-> "none"]

\* InterruptHandler.__init__, and the terminal and the SIGINT handler as the
\* process found them.
MonIdle ==
    /\ mon_pc = "top"
    /\ sigint = "original"
    /\ original_handler = "none"
    /\ esc_monitor = Null
    /\ monitors = [s \in 1..MaxScopes |-> NewMonitor]
    /\ nscopes = 0
    /\ term = "cooked"
    /\ left_by = "none"

\* Python's None, and an int.
None == [none |-> TRUE, n |-> 0]

IntVal(n) == [none |-> FALSE, n |-> n]

\* get_status_text has not been called.
NoStatus == [kind |-> "none", consumed |-> <<>>, available |-> <<>>,
             percentage |-> 0]

\* Before the adapter is constructed.
StatusIdle ==
    /\ st_pc = "new"
    /\ max_input_tokens = None
    /\ model_info = [raises |-> FALSE, has |-> FALSE, val |-> None]
    /\ max_tokens = None
    /\ token_count = 0
    /\ status = NoStatus

Init == LoopInit /\ SubIdle /\ ParseIdle /\ MonIdle /\ StatusIdle


\* ------------------------------------------------- CompletionClient (pure)
\* call(): a plain-string input is appended as a user message; any other
\* input (a multimodal list) is not appended.
CompletionAppendUser(msgs, input) ==
    IF input.kind = "str"
    THEN Append(msgs, Msg("user", "text", input.turn, <<>>, 0))
    ELSE msgs

\* call(): the assistant message of the response is appended to the history.
CompletionAppendAssistant(msgs, w, resp) ==
    Append(msgs, Msg("assistant", "response", 0, ToolCalls(w, resp.n), w))

\* add_tool_result(): one tool message under the call's id.
CompletionAddToolResult(msgs, id, content) ==
    Append(msgs, Msg("tool", content, 0, <<>>, id))

\* reset_context(): the loop condition, and the condition of the final pop.
ResetPopsTool(msgs) == Len(msgs) > 0 /\ Last(msgs).role = "tool"

ResetPopsAssistant(msgs) ==
    /\ Len(msgs) > 0
    /\ Last(msgs).role = "assistant"
    /\ Last(msgs).tcs # <<>>

\* -------------------------------------------------- ResponsesClient (pure)
\* add_tool_result(): one function_call_output is queued under the call's id.
ResponsesAddToolResult(pend, id, content) ==
    Append(pend, [call_id |-> id, output |-> content])

\* Mutant of ResponsesResetToken: only the queue is cleared, the token is kept.
ResponsesKeepToken(prev) == prev

\* reset_context(), second half: the continuation token after the reset.
ResponsesResetToken(prev) == Null

\* get_pending_tool_outputs() and the loop's use of it: the queue becomes the
\* next input when it is not empty, otherwise current_input is kept.
NextInput(a, pend, cur) ==
    IF a = "responses" /\ pend # <<>>
    THEN [kind |-> "outputs", turn |-> cur.turn, outs |-> pend]
    ELSE cur

\* The serialized arguments of the k-th function call of a response.
Payload(resp, k) == IF k = resp.bad THEN "malformed" ELSE "json"

\* call(), decoding of the serialized arguments: CompletionClient calls
\* json.loads unguarded, ResponsesClient maps a JSONDecodeError to {}.
DecodeArguments(a, payload) ==
    IF payload = "json" THEN "parsed"
    ELSE IF a = "responses" THEN "empty"
    ELSE "raise"

\* The result record call() builds from a response of worker w.
ResultOf(w, resp) ==
    [text |-> resp.kind = "final",
     tool_calls |-> ToolCalls(w, resp.n),
     args |-> [k \in 1..resp.n |-> DecodeArguments(api, Payload(resp, k))]]

\* call() raises while it builds the result.
CallRaises(w, resp) ==
    \E k \in 1..resp.n : ResultOf(w, resp).args[k] = "raise"

\* What the remote model may answer: the call raises, a final text, an empty
\* response, or a batch of tool calls (while the run's bound allows it), one
\* of which (bad) may carry malformed arguments.
Responses ==
    {[kind |-> "error", n |-> 0, bad |-> 0], [kind |-> "final", n |-> 0, bad |-> 0],
     [kind |-> "empty", n |-> 0, bad |-> 0]}
    \cup UNION {{[kind |-> "tools", n |-> k, bad |-> b] : b \in 0..k} :
                    k \in 1..(MaxToolCalls - issued)}

\* ---------------------------------------------------------- worker thread
\* Worker threads are daemon threads: they run until the process ends, which
\* it does when the outer loop is left.
Running == pc # "exit"

\* worker() of run_with_interrupt runs client.call(ci) up to the submission
\* of the request.
WBegin(w) ==
    /\ Running
    /\ workers[w].pc = "start"
    /\ messages' = IF api = "completion"
                   THEN CompletionAppendUser(messages, workers[w].input)
                   ELSE messages
    /\ req' = [w |-> w, first |-> workers[w].first,
               afterIntr |-> workers[w].afterIntr,
               prev |-> IF api = "responses" THEN previous_response_id ELSE Null,
               kind |-> workers[w].input.kind,
               outs |-> workers[w].input.outs,
               hist |-> IF api = "completion" THEN messages' ELSE <<>>]
    /\ workers' = [workers EXCEPT ![w].pc = "sent", ![w].input = NoInput,
                                  ![w].first = FALSE, ![w].afterIntr = FALSE]
    /\ UNCHANGED <<api, skip_permission, pc, flag, monitoring,
                   previous_response_id, pending_tool_outputs,
                   total_input_tokens, total_output_tokens, nw, turn,
                   current_input, interrupted, result, i, rwi, executed,
                   answered, preGrant, flagWhileRunning, firstCall,
                   prevInterrupted, preReset, issued>>
    /\ UNCHANGED <<lookup, subvars, parsevars, auxvars>>

\* What worker() leaves for the caller: nobody reads the container of an
\* abandoned worker.
Stored(w, out) == IF workers[w].st = "live"
                  THEN [DoneWorker EXCEPT !.out = out]
                  ELSE DoneWorker

\* The remote call raises: worker() stores the error and sets done.
WError(w) ==
    /\ Running
    /\ workers[w].pc = "sent"
    /\ workers' = [workers EXCEPT ![w] =
                      Stored(w, [kind |-> "error", val |-> w, exc |-> "APIError",
                                 res |-> NoResult])]
    /\ req' = IF req.w = w THEN NoRequest ELSE req
    /\ UNCHANGED <<api, skip_permission, pc, flag, monitoring, messages,
                   previous_response_id, pending_tool_outputs,
                   total_input_tokens, total_output_tokens, nw, turn,
                   current_input, interrupted, result, i, rwi, executed,
                   answered, preGrant, flagWhileRunning, firstCall,
                   prevInterrupted, preReset, issued>>
    /\ UNCHANGED <<lookup, subvars, parsevars, auxvars>>

\* The response arrives and call() runs to its return: CompletionClient
\* appends the assistant message; ResponsesClient stores response.id and the
\* token usage and replaces the pending queue by an empty one. worker() stores
\* the result and sets done.
WRespond(w) ==
    /\ Running
    /\ workers[w].pc = "sent"
    /\ \E resp \in Responses :
        /\ resp.kind # "error"
        /\ messages' = IF api = "completion"
                       THEN CompletionAppendAssistant(messages, w, resp)
                       ELSE messages
        /\ workers' = [workers EXCEPT ![w] =
                          Stored(w, IF CallRaises(w, resp)
                                    THEN [kind |-> "error", val |-> w,
                                          exc |-> "JSONDecodeError",
                                          res |-> NoResult]
                                    ELSE [kind |-> "value", val |-> w,
                                          exc |-> "none",
                                          res |-> ResultOf(w, resp)])]
        /\ issued' = issued + resp.n
    /\ previous_response_id' = IF api = "responses" THEN w ELSE previous_response_id
    /\ total_input_tokens' = IF api = "responses" THEN w ELSE total_input_tokens
    /\ total_output_tokens' = IF api = "responses"
                              THEN total_output_tokens + 1
                              ELSE total_output_tokens
    /\ pending_tool_outputs' = IF api = "responses" THEN <<>> ELSE pending_tool_outputs
    /\ req' = IF req.w = w THEN NoRequest ELSE req
    /\ UNCHANGED <<api, skip_permission, pc, flag, monitoring, nw, turn,
                   current_input, interrupted, result, i, rwi, executed,
                   answered, preGrant, flagWhileRunning, firstCall,
                   prevInterrupted, preReset>>
    /\ UNCHANGED <<lookup, subvars, parsevars, auxvars>>

\* ------------------------------------------------------------ main thread
adapters == <<messages, previous_response_id, pending_tool_outputs,
              total_input_tokens, total_output_tokens>>

config == <<api, skip_permission, issued>>

batch == <<executed, answered, preGrant>>

CurId == result.tool_calls[i]

Snapshot == [prev |-> previous_response_id, pending |-> pending_tool_outputs]

\* The turn is over and the outer loop is back at its top: the loop's locals
\* and the history variables of the turn are dead and are put back to their
\* defaults.
EndTurn ==
    /\ pc' = "top"
    /\ current_input' = NoInput
    /\ interrupted' = FALSE
    /\ result' = NoResult
    /\ i' = 0
    /\ rwi' = NoOutcome
    /\ executed' = <<>>
    /\ answered' = <<>>
    /\ preGrant' = {}
    /\ flagWhileRunning' = FALSE

\* Top of the outer loop: interrupt_handler.reset().
TurnStart ==
    /\ pc = "top"
    /\ flag' = FALSE
    /\ preReset' = NoSnapshot
    /\ pc' = "input"
    /\ UNCHANGED <<config, adapters, batch, monitoring, workers, nw, turn,
                   current_input, interrupted, result, i, rwi, req,
                   flagWhileRunning, firstCall, prevInterrupted>>
    /\ UNCHANGED <<lookup, subvars, parsevars, auxvars>>

\* The characters str.strip() removes, of those a line is made of here.
Whitespace == {" ", "\t"}

\* str.strip(): the line without its leading and trailing whitespace.
RECURSIVE Strip(_)
Strip(s) ==
    IF s = <<>> THEN s
    ELSE IF Head(s) \in Whitespace THEN Strip(Tail(s))
    ELSE IF s[Len(s)] \in Whitespace THEN Strip(SubSeq(s, 1, Len(s) - 1))
    ELSE s

\* str.lower() on one character.
LowerChar(c) ==
    CASE c = "E" -> "e" [] c = "X" -> "x" [] c = "I" -> "i" [] c = "T" -> "t"
      [] c = "Q" -> "q" [] c = "U" -> "u" [] c = "H" -> "h" [] c = "S" -> "s"
      [] OTHER -> c

\* Mutant of Lower: the letter case is kept.
NoLower(s) == s

\* str.lower().
Lower(s) == [k \in 1..Len(s) |-> LowerChar(s[k])]

\* ("exit", "quit")
QuitWords == {<<"e", "x", "i", "t">>, <<"q", "u", "i", "t">>}

\* What the loop does with user_input = line.strip(): `continue` when it is
\* empty, break when its lower() is exit or quit, else a turn begins.
PromptBranch(line) ==
    IF Strip(line) = <<>> THEN "empty"
    ELSE IF Lower(Strip(line)) \in QuitWords THEN "quit"
    ELSE "text"

\* The lines the user types at the prompt.
Lines ==
    {<<>>, <<" ">>, <<"\t", " ">>,
     <<"e", "x", "i", "t">>, <<"E", "X", "I", "T">>, <<"q", "u", "i", "t">>,
     <<" ", "Q", "u", "i", "T", "\t">>,
     <<"h", "i">>, <<" ", "e", "x", "i", "t", "s">>}

\* session.prompt() returns only whitespace: `continue`.
ReadEmpty ==
    /\ pc = "input"
    /\ \E line \in Lines : PromptBranch(line) = "empty" /\ typed' = line
    /\ pc' = "top"
    /\ UNCHANGED <<config, adapters, batch, flag, monitoring, workers, nw,
                   turn, current_input, interrupted, result, i, rwi, req,
                   flagWhileRunning, firstCall, prevInterrupted, preReset>>
    /\ UNCHANGED <<lookup, subvars, parsevars, monvars, statusvars, sessvars>>

\* EOFError or KeyboardInterrupt at the prompt: the loop ends.
ReadAborted ==
    /\ pc = "input"
    /\ typed' = NoLine
    /\ pc' = "exit"
    /\ UNCHANGED <<config, adapters, batch, flag, monitoring, workers, nw,
                   turn, current_input, interrupted, result, i, rwi, req,
                   flagWhileRunning, firstCall, prevInterrupted, preReset>>
    /\ UNCHANGED <<lookup, subvars, parsevars, monvars, statusvars, sessvars>>

\* exit / quit at the prompt: the loop ends.
ReadQuit ==
    /\ pc = "input"
    /\ \E line \in Lines : PromptBranch(line) = "quit" /\ typed' = line
    /\ pc' = "exit"
    /\ UNCHANGED <<config, adapters, batch, flag, monitoring, workers, nw,
                   turn, current_input, interrupted, result, i, rwi, req,
                   flagWhileRunning, firstCall, prevInterrupted, preReset>>
    /\ UNCHANGED <<lookup, subvars, parsevars, monvars, statusvars, sessvars>>

\* A user turn begins: current_input is the text ("str") or, with attached
\* images, the multimodal list ("list"); the monitoring scope is entered.
ReadText ==
    /\ pc = "input"
    /\ nw < MaxWorkers
    /\ \E line \in Lines : PromptBranch(line) = "text" /\ typed' = line
    /\ \E k \in {"str", "list"} :
        current_input' = [kind |-> k, turn |-> turn + 1, outs |-> <<>>]
    /\ turn' = turn + 1
    /\ interrupted' = FALSE
    /\ monitoring' = TRUE
    /\ firstCall' = TRUE
    /\ pc' = "call"
    /\ UNCHANGED <<config, adapters, batch, flag, workers, nw, result, i, rwi,
                   req, flagWhileRunning, prevInterrupted, preReset>>
    /\ UNCHANGED <<lookup, subvars, parsevars, monvars, statusvars, sessvars>>

\* run_with_interrupt: thread.start() of the worker running client.call(ci).
StartCall ==
    /\ pc = "call"
    /\ nw < MaxWorkers
    /\ nw' = nw + 1
    /\ workers' = [workers EXCEPT ![nw + 1] =
                      [pc |-> "start", input |-> current_input,
                       first |-> firstCall,
                       afterIntr |-> firstCall /\ prevInterrupted,
                       st |-> "live", out |-> NoOutcome]]
    /\ firstCall' = FALSE
    /\ flagWhileRunning' = flag
    /\ rwi' = NoOutcome
    /\ pc' = "wait"
    /\ UNCHANGED <<config, adapters, batch, flag, monitoring, turn,
                   current_input, interrupted, result, i, req,
                   prevInterrupted, preReset>>
    /\ UNCHANGED <<lookup, subvars, parsevars, auxvars>>

\* Mutant of Deliver: the stored error is dropped and None is returned.
DeliverDropsError(out) ==
    IF out.kind = "error"
    THEN [kind |-> "value", val |-> out.val, exc |-> "none", res |-> NoResult]
    ELSE out

\* Mutant of AfterScope: an interrupted turn goes to the top of the loop
\* without reset_context().
AfterScopeNoReset(intr) == "top"

\* `if interrupted: client.reset_context(); continue` behind the monitoring
\* scope: where the loop goes when the inner loop was left by break.
AfterScope(intr) == IF intr THEN "reset" ELSE "top"

\* Mutant of OuterExcept: the handler of the outer loop leaves the loop.
OuterExceptBreaks(exc) == "exit"

\* The except clauses of the outer loop: KeyboardInterrupt and EOFError leave
\* the loop, any other Exception goes to reset_context() and the loop goes on.
OuterExcept(exc) ==
    IF exc \in {"KeyboardInterrupt", "EOFError"} THEN "exit" ELSE "reset"

\* run_with_interrupt after the wait loop: what the caller receives from the
\* worker's container (the error re-raised, else the result).
Deliver(out) == out

\* run_with_interrupt: the wait loop raises InterruptRequested.
PollRaises(done, f) == ~done /\ f

\* Mutant of AfterResponse: every result is displayed as the final text.
AfterResponseAlwaysFinal(res) == "show"

\* `if result.tool_calls:` of the inner loop: a result with tool calls starts
\* the batch, which ends in `continue`; any other result is displayed and the
\* inner loop is left by break.
AfterResponse(res) == IF res.tool_calls # <<>> THEN "check1" ELSE "show"

\* The wait loop ends because done is set. An error propagates to the outer
\* `except Exception` (the scope is left, reset_context() follows); a result
\* with tool calls starts the batch; any other result is displayed.
PollDone ==
    /\ pc = "wait"
    /\ workers[nw].pc = "done"
    /\ rwi' = Deliver(workers[nw].out)
    /\ workers' = [workers EXCEPT ![nw] = DoneWorker]
    /\ IF rwi'.kind = "error"
       THEN /\ monitoring' = FALSE
            /\ preReset' = Snapshot
            /\ pc' = OuterExcept(rwi'.exc)
            /\ UNCHANGED <<result, i, batch>>
       ELSE /\ result' = rwi'.res
            /\ IF result'.tool_calls # <<>>
               THEN /\ i' = 1
                    /\ executed' = <<>>
                    /\ answered' = <<>>
                    /\ preGrant' = IF flag THEN {result'.tool_calls[1]} ELSE {}
                    /\ pc' = AfterResponse(result')
               ELSE /\ i' = 0
                    /\ executed' = <<>>
                    /\ answered' = <<>>
                    /\ preGrant' = {}
                    /\ pc' = AfterResponse(result')
            /\ UNCHANGED <<monitoring, preReset>>
    /\ UNCHANGED <<config, adapters, flag, nw, turn, current_input,
                   interrupted, req, flagWhileRunning, firstCall,
                   prevInterrupted>>
    /\ UNCHANGED <<lookup, subvars, parsevars, auxvars>>

\* The wait loop sees the flag: InterruptRequested, the worker is abandoned;
\* the loop sets interrupted, leaves the scope and goes to reset_context().
PollInterrupted ==
    /\ pc = "wait"
    /\ PollRaises(workers[nw].pc = "done", flag)
    /\ rwi' = [kind |-> "interrupted", val |-> 0, exc |-> "InterruptRequested",
               res |-> NoResult]
    /\ workers' = [workers EXCEPT ![nw].st = "abandoned"]
    /\ interrupted' = TRUE
    /\ monitoring' = FALSE
    /\ preReset' = Snapshot
    /\ pc' = AfterScope(interrupted')
    /\ UNCHANGED <<config, adapters, batch, flag, nw, turn, current_input,
                   result, i, req, flagWhileRunning, firstCall,
                   prevInterrupted>>
    /\ UNCHANGED <<lookup, subvars, parsevars, auxvars>>

\* No tool calls: the final text (or the empty-response warning) is displayed,
\* break, the scope is left, `interrupted` is false.
ShowFinal ==
    /\ pc = "show"
    /\ EndTurn
    /\ monitoring' = FALSE
    /\ prevInterrupted' = FALSE
    /\ UNCHANGED <<config, adapters, flag, workers, nw, turn, req, firstCall,
                   preReset>>
    /\ UNCHANGED <<lookup, subvars, parsevars, auxvars>>

\* ------------------------------------------------------------ execute_tool
\* Mutant of InterruptedBeforeExecution: the second check is missing.
NoCheckBeforeExecution(f) == FALSE

\* Mutant of AnswerId: the answers are recorded in reverse order.
AnswerIdReversed(res, k) == res.tool_calls[Len(res.tool_calls) + 1 - k]

\* The two interrupt checks of execute_tool.
InterruptedBeforePermission(f) == f

InterruptedBeforeExecution(f) == f

\* The id under which the loop answers tool call k of the result.
AnswerId(res, k) == res.tool_calls[k]

\* `except InterruptRequested` around execute_tool: tool_interrupted, break,
\* interrupted = True, the scope is left and reset_context() follows.
ToolInterrupted ==
    /\ interrupted' = TRUE
    /\ monitoring' = FALSE
    /\ preReset' = Snapshot
    /\ pc' = AfterScope(interrupted')

\* add_tool_result(tool_call["id"], ...) and the end of the loop body: the next
\* call of the batch, or, after the last one, the input of the follow-up call.
Answer(content) ==
    /\ messages' = IF api = "completion"
                   THEN CompletionAddToolResult(messages, AnswerId(result, i), content)
                   ELSE messages
    /\ pending_tool_outputs' =
           IF api = "responses"
           THEN ResponsesAddToolResult(pending_tool_outputs, AnswerId(result, i), content)
           ELSE pending_tool_outputs
    /\ answered' = Append(answered, AnswerId(result, i))
    /\ IF i < Len(result.tool_calls)
       THEN /\ i' = i + 1
            /\ preGrant' = preGrant \cup (IF flag THEN {result.tool_calls[i + 1]} ELSE {})
            /\ pc' = "check1"
            /\ UNCHANGED current_input
       ELSE /\ current_input' = NextInput(api, pending_tool_outputs', current_input)
            /\ pc' = "call"
            /\ UNCHANGED <<i, preGrant>>

\* Mutant of PromptOrSkip: the prompt is shown even with skip_permission.
AlwaysPrompt(skip) == "perm"

\* execute_tool behind the first flag check: request_permission is called
\* unless skip_permission is set.
PromptOrSkip(skip) == IF skip THEN "check2" ELSE "perm"

\* Check for interrupt before the permission prompt; then the prompt is shown,
\* or, with skip_permission, the compact display.
Check1 ==
    /\ pc = "check1"
    /\ IF InterruptedBeforePermission(flag)
       THEN /\ ToolInterrupted
       ELSE /\ pc' = PromptOrSkip(skip_permission)
            /\ UNCHANGED <<interrupted, monitoring, preReset>>
    /\ UNCHANGED <<config, adapters, batch, flag, workers, nw, turn,
                   current_input, result, i, rwi, req, flagWhileRunning,
                   firstCall, prevInterrupted>>
    /\ UNCHANGED <<lookup, subvars, parsevars, auxvars>>

\* request_permission returns True.
PermAllow ==
    /\ pc = "perm"
    /\ pc' = "check2"
    /\ UNCHANGED <<config, adapters, batch, flag, monitoring, workers, nw,
                   turn, current_input, interrupted, result, i, rwi, req,
                   flagWhileRunning, firstCall, prevInterrupted, preReset>>
    /\ UNCHANGED <<lookup, subvars, parsevars, auxvars>>

\* request_permission returns False: the denial text is the tool result.
PermDeny ==
    /\ pc = "perm"
    /\ Answer("Error: Tool execution was denied by user.")
    /\ UNCHANGED <<config, previous_response_id, total_input_tokens,
                   total_output_tokens, executed, flag, monitoring, workers,
                   nw, turn, interrupted, result, rwi, req, flagWhileRunning,
                   firstCall, prevInterrupted, preReset>>
    /\ UNCHANGED <<lookup, subvars, parsevars, auxvars>>

\* request_permission returns None (Esc, EOF, Ctrl-C at the prompt):
\* request_interrupt() and InterruptRequested.
PermCancel ==
    /\ pc = "perm"
    /\ flag' = TRUE
    /\ preGrant' = preGrant \cup {CurId}
    /\ ToolInterrupted
    /\ UNCHANGED <<config, adapters, executed, answered, workers, nw, turn,
                   current_input, result, i, rwi, req, flagWhileRunning,
                   firstCall, prevInterrupted>>
    /\ UNCHANGED <<lookup, subvars, parsevars, auxvars>>

\* Check for interrupt before execution; then registry.execute is invoked: it
\* looks the name up and, when the name is registered, invokes tool.execute.
Check2 ==
    /\ pc = "check2"
    /\ IF InterruptedBeforeExecution(flag)
       THEN /\ ToolInterrupted
            /\ UNCHANGED <<executed, lookup>>
       ELSE /\ \E l \in {"found", "unknown"} :
                 /\ lookup' = l
                 /\ executed' = IF l = "found"
                                THEN Append(executed, CurId)
                                ELSE executed
            /\ pc' = "exec"
            /\ UNCHANGED <<interrupted, monitoring, preReset>>
    /\ UNCHANGED <<config, adapters, answered, preGrant, flag, workers, nw,
                   turn, current_input, result, i, rwi, req, flagWhileRunning,
                   firstCall, prevInterrupted>>
    /\ UNCHANGED <<subvars, parsevars, auxvars>>

\* tool.execute returns its text, or raises an exception other than
\* InterruptRequested.
ToolRuns ==
    /\ pc = "exec"
    /\ lookup = "found"
    /\ lookup' \in {"returned", "raised"}
    /\ UNCHANGED <<config, adapters, batch, pc, flag, monitoring, workers, nw,
                   turn, current_input, interrupted, result, i, rwi, req,
                   flagWhileRunning, firstCall, prevInterrupted, preReset>>
    /\ UNCHANGED <<subvars, parsevars, auxvars>>

\* Mutant of RegistryExecute: an unregistered name raises (a KeyError).
RegistryExecuteRaises(l) ==
    IF l = "returned" THEN "ok" ELSE "raise"

\* ToolRegistry.execute: the error text for a name that is not registered,
\* otherwise the text tool.execute returned ("ok") or the exception it raised.
RegistryExecute(l) ==
    IF l = "unknown" THEN "Error: Unknown tool: name"
    ELSE IF l = "returned" THEN "ok"
    ELSE "raise"

\* Mutant of ExecuteToolResult: the exception of the tool is not caught.
ExecuteToolReraises(outcome) == outcome

\* execute_tool, try/except around registry.execute: an exception becomes an
\* error text, a returned text is kept.
ExecuteToolResult(outcome) ==
    IF outcome = "raise" THEN "Error: Kind: message" ELSE outcome

\* registry.execute has returned or raised; execute_tool returns the text and
\* the loop answers the call.
ExecDone ==
    /\ pc = "exec"
    /\ lookup \in {"unknown", "returned", "raised"}
    /\ Answer(ExecuteToolResult(RegistryExecute(lookup)))
    /\ lookup' = "none"
    /\ UNCHANGED <<config, previous_response_id, total_input_tokens,
                   total_output_tokens, executed, flag, monitoring, workers,
                   nw, turn, interrupted, result, rwi, req, flagWhileRunning,
                   firstCall, prevInterrupted, preReset>>
    /\ UNCHANGED <<subvars, parsevars, auxvars>>

\* ----------------------------------------------------------- reset_context
\* reset_context() returns and the outer loop continues at its top. From now
\* on a worker abandoned in this turn is stale.
ResetReturns ==
    /\ EndTurn
    /\ prevInterrupted' = interrupted
    /\ workers' = [w \in Workers |->
                     IF workers[w].st = "abandoned"
                     THEN [workers[w] EXCEPT !.st = "stale"]
                     ELSE workers[w]]
    /\ UNCHANGED <<lookup, subvars, parsevars, auxvars>>

\* CompletionClient.reset_context: one test of the while loop, with its pop.
ResetLoopC ==
    /\ pc = "reset"
    /\ api = "completion"
    /\ IF ResetPopsTool(messages)
       THEN /\ messages' = Front(messages)
            /\ UNCHANGED pc
       ELSE /\ pc' = "reset_if"
            /\ UNCHANGED messages
    /\ UNCHANGED <<config, previous_response_id, pending_tool_outputs,
                   total_input_tokens, total_output_tokens, batch, flag,
                   monitoring, workers, nw, turn, current_input, interrupted,
                   result, i, rwi, req, flagWhileRunning, firstCall,
                   prevInterrupted, preReset>>
    /\ UNCHANGED <<lookup, subvars, parsevars, auxvars>>

\* CompletionClient.reset_context: the final `if`, then return.
ResetIfC ==
    /\ pc = "reset_if"
    /\ messages' = IF ResetPopsAssistant(messages) THEN Front(messages) ELSE messages
    /\ ResetReturns
    /\ UNCHANGED <<config, previous_response_id, pending_tool_outputs,
                   total_input_tokens, total_output_tokens, flag, monitoring,
                   nw, turn, req, firstCall, preReset>>
    /\ UNCHANGED <<lookup, subvars, parsevars, auxvars>>

\* ResponsesClient.reset_context: pending_tool_outputs = [].
ResetQueueR ==
    /\ pc = "reset"
    /\ api = "responses"
    /\ pending_tool_outputs' = <<>>
    /\ pc' = "reset_tok"
    /\ UNCHANGED <<config, messages, previous_response_id,
                   total_input_tokens, total_output_tokens, batch, flag,
                   monitoring, workers, nw, turn, current_input, interrupted,
                   result, i, rwi, req, flagWhileRunning, firstCall,
                   prevInterrupted, preReset>>
    /\ UNCHANGED <<lookup, subvars, parsevars, auxvars>>

\* ResponsesClient.reset_context: previous_response_id = None, the token
\* counters are zeroed, then return.
ResetTokenR ==
    /\ pc = "reset_tok"
    /\ previous_response_id' = ResponsesResetToken(previous_response_id)
    /\ total_input_tokens' = 0
    /\ total_output_tokens' = 0
    /\ ResetReturns
    /\ UNCHANGED <<config, messages, pending_tool_outputs, flag, monitoring,
                   nw, turn, req, firstCall, preReset>>
    /\ UNCHANGED <<lookup, subvars, parsevars, auxvars>>

\* ------------------------------------------------------- interrupt sources
\* request_interrupt() from the Esc monitor thread or the SIGINT handler,
\* both active while monitoring is on.
RequestInterrupt ==
    /\ monitoring
    /\ ~flag
    /\ flag' = TRUE
    /\ flagWhileRunning' = (flagWhileRunning \/ (pc = "wait" /\ workers[nw].pc # "done"))
    /\ preGrant' = preGrant \cup
                   (IF pc \in {"check1", "perm", "check2"} THEN {CurId} ELSE {})
    /\ UNCHANGED <<config, adapters, executed, answered, pc, monitoring,
                   workers, nw, turn, current_input, interrupted, result, i,
                   rwi, req, firstCall, prevInterrupted, preReset>>
    /\ UNCHANGED <<lookup, subvars, parsevars, auxvars>>

\* A tool that polls the handler while it runs (run_command) sees the flag and
\* raises InterruptRequested, which execute_tool re-raises: no answer.
ExecInterrupted ==
    /\ pc = "exec"
    /\ lookup = "found"
    /\ flag
    /\ ToolInterrupted
    /\ UNCHANGED <<config, adapters, batch, flag, workers, nw, turn,
                   current_input, result, i, rwi, req, flagWhileRunning,
                   firstCall, prevInterrupted>>
    /\ lookup' = "none"
    /\ UNCHANGED <<subvars, parsevars, auxvars>>

\* ------------------------------------------------------------ specification
Next ==
    \/ TurnStart
    \/ ReadEmpty
    \/ ReadQuit
    \/ ReadAborted
    \/ ReadText
    \/ StartCall
    \/ PollDone
    \/ PollInterrupted
    \/ ShowFinal
    \/ Check1
    \/ PermAllow
    \/ PermDeny
    \/ PermCancel
    \/ Check2
    \/ ToolRuns
    \/ ExecDone
    \/ ExecInterrupted
    \/ ResetLoopC
    \/ ResetIfC
    \/ ResetQueueR
    \/ ResetTokenR
    \/ RequestInterrupt
    \/ \E w \in Workers : WBegin(w)
    \/ \E w \in Workers : WError(w)
    \/ \E w \in Workers : WRespond(w)

Spec == Init /\ [][Next]_vars

\* ------------------------------------------------------------------ claims
\* A worker thread takes a step.
WorkerMoved(w) ==
    /\ workers[w].pc \in {"start", "sent"}
    /\ workers'[w].pc # workers[w].pc

\* C1: once reset_context() has returned, no write of a call abandoned before
\* it (user or assistant message appended, previous_response_id set,
\* pending_tool_outputs replaced, token counters updated) changes the
\* conversation state.
C1_NoStaleWrite ==
    [][\A w \in Workers :
          (workers[w].st = "stale" /\ WorkerMoved(w)) => conv' = conv]_vars

\* A history in which every tool call of every assistant message is answered
\* by a later tool message.
NoDangling(h) ==
    \A p \in 1..Len(h) :
        h[p].role = "assistant" =>
            \A k \in 1..Len(h[p].tcs) :
                \E q \in (p + 1)..Len(h) :
                    h[q].role = "tool" /\ h[q].id = h[p].tcs[k]

\* C2: the first request of the turn that follows an interrupted turn and its
\* reset_context() carries no continuation token and no queued tool outputs
\* (stateful chain), and a history without unanswered tool calls (stateless
\* history).
C2_ValidFirstRequest ==
    (req.w # 0 /\ req.first /\ req.afterIntr) =>
        IF api = "responses"
        THEN req.prev = Null /\ req.outs = <<>>
        ELSE NoDangling(req.hist)

\* Position of id in the sequence ids (0 when absent).
Pos(ids, id) == IF \E k \in 1..Len(ids) : ids[k] = id
                THEN CHOOSE k \in 1..Len(ids) : ids[k] = id
                ELSE 0

\* The tool_call_ids of the tool messages that follow the assistant message
\* which issued the tool calls ids.
ToolIdsAfter(msgs, ids) ==
    LET p == CHOOSE q \in 1..Len(msgs) :
                 msgs[q].role = "assistant" /\ msgs[q].tcs = ids
        t == SelectSeq(SubSeq(msgs, p + 1, Len(msgs)), LAMBDA m : m.role = "tool")
    IN  [k \in 1..Len(t) |-> t[k].id]

\* C3: the calls c1..cn of a result are executed and answered in that order:
\* the answers form a prefix of c1..cn, a call is executed only when all calls
\* before it are answered, all n are answered when the next model call is
\* issued, and the stateless history holds the n tool messages in that order.
C3_AnsweredInOrder ==
    LET ids == result.tool_calls IN
    /\ Len(answered) <= Len(ids)
    /\ answered = SubSeq(ids, 1, Len(answered))
    /\ \A k \in 1..Len(executed) :
          /\ Pos(ids, executed[k]) >= 1
          /\ Pos(ids, executed[k]) <= Len(answered) + 1
          /\ k > 1 => Pos(ids, executed[k - 1]) < Pos(ids, executed[k])
    /\ (pc \in {"call", "wait"} /\ ids # <<>>) => answered = ids
    /\ (api = "completion" /\ ids # <<>>
           /\ pc \in {"check1", "perm", "check2", "exec", "call", "wait"})
          => ToolIdsAfter(messages, ids) = answered

\* C3: a batch of two calls was executed and answered and the follow-up model
\* call is running.
C3_Witness ==
    /\ pc = "wait"
    /\ Len(result.tool_calls) = 2
    /\ executed = result.tool_calls
    /\ answered = result.tool_calls
    /\ api = "completion"

\* C4: a tool call for which the flag was set no later than the check that
\* precedes execution (set at the start of execute_tool, by cancelling the
\* prompt, or between the prompt and that check) is never executed.
C4_NoExecuteAfterEarlyInterrupt ==
    \A k \in 1..Len(executed) : executed[k] \notin preGrant

\* C4: permission was granted while the flag was already set, and the call
\* ended as interrupted without being executed.
C4_Witness ==
    /\ pc = "reset"
    /\ interrupted
    /\ ~skip_permission
    /\ i >= 1
    /\ CurId \in preGrant
    /\ \A k \in 1..Len(executed) : executed[k] # CurId

\* C5: the conversation state is changed only by steps of the main thread,
\* never by a step of a worker thread.
C5_MainThreadOnly ==
    [][(conv' # conv) => \A w \in Workers : ~WorkerMoved(w)]_vars

\* C6: once the flag is set, no permission prompt is shown, no tool is
\* executed and no worker thread is started for a model call.
C6_NothingStartsAfterFlag ==
    [][flag => /\ ~(pc # "perm" /\ pc' = "perm")
               /\ Len(executed') <= Len(executed)
               /\ nw' = nw]_vars

\* C7: a flag set while the worker had not finished always ends the call with
\* InterruptRequested, never with the worker's outcome.
C7_InterruptAlwaysSurfaces ==
    flagWhileRunning => rwi.kind \notin {"value", "error"}

C9_ResetForgetsChain ==
    [][(pc = "reset_tok" /\ pc' # "reset_tok") =>
          /\ previous_response_id' = Null
          /\ pending_tool_outputs' = <<>>]_vars

\* C9: reset_context() was entered with a token and a non-empty queue and has
\* returned.
C9_Witness ==
    /\ pc = "top"
    /\ preReset.prev # Null
    /\ preReset.pending # <<>>
    /\ previous_response_id = Null
    /\ pending_tool_outputs = <<>>

\* C10: when CompletionClient.reset_context() returns, the history does not
\* end with a tool message nor with an assistant message with tool calls.
C10_ResetRestoresUserTurn ==
    [][(pc = "reset_if" /\ pc' = "top") =>
          /\ Last(messages').role # "tool"
          /\ ~(Last(messages').role = "assistant" /\ Last(messages').tcs # <<>>)]_vars

\* ------------------------------------------------- SubAgentTool.execute
\* The names a subagent type may list: a registered tool, the subagent tool
\* itself, and a name that is not registered.
ToolNames == {"read_file", "subagent", "no_such_tool"}

\* self._all_tools: run_repl adds the subagent tool to the dictionary it has
\* handed to SubAgentTool.
AllTools == {"read_file", "subagent"}

\* Mutant of SubagentTools: the name "subagent" is not skipped.
SubagentToolsUnfiltered(names) == {t \in names : t \in AllTools}

\* execute(): the tool list built for the subagent type.
SubagentTools(names) == {t \in names : t # "subagent" /\ t \in AllTools}

\* The keyword arguments execute() passes to run_subagent, and the keyword-only
\* parameters run_subagent declares.
PassedKeywords ==
    {"subagent_type", "task", "context", "description", "model", "api_base",
     "api_key", "max_input_tokens", "tools", "api_mode", "reasoning_effort",
     "max_turns", "interrupt_handler"}

AcceptedKeywords ==
    {"subagent_type", "task", "context", "description", "model", "tools",
     "api_mode", "reasoning_effort", "max_turns", "interrupt_handler"}

\* A call with keywords binds when every keyword passed is a parameter.
CallBinds(passed, accepted) == passed \subseteq accepted

\* What the name type is bound to inside execute(): its parameter type: str
\* hides the builtin.
TypeInExecute == "str"

\* execute(), the except clause around run_subagent: InterruptRequested is
\* re-raised; for any other Exception the error text is built with type(e),
\* and calling a str raises TypeError inside the handler.
ExecuteCatch(exc) ==
    IF exc = "InterruptRequested"
    THEN Ret("raise", exc, 0)
    ELSE IF TypeInExecute = "builtin"
    THEN Ret("text", "Error running subagent: Kind: message", 0)
    ELSE Ret("raise", "TypeError", 0)

\* execute() up to the call of run_subagent: an unknown type and an empty tool
\* list end with an error text; a missing max_turns becomes the default.
SubExecute ==
    /\ sub_pc = "idle"
    /\ \E known \in BOOLEAN, names \in SUBSET ToolNames, mt \in -1..MaxTurns :
         IF ~known
         THEN /\ sub_ret' = Ret("text", "Error: Unknown subagent type", 0)
              /\ sub_pc' = "tool_returned"
              /\ UNCHANGED <<config_tools, sub_tools, max_turns>>
         ELSE /\ config_tools' = names
              /\ sub_tools' = SubagentTools(names)
              /\ IF sub_tools' = {}
                 THEN /\ sub_ret' = Ret("text", "Error: No valid tools configured", 0)
                      /\ sub_pc' = "tool_returned"
                      /\ UNCHANGED max_turns
                 ELSE /\ max_turns' = mt
                      /\ sub_pc' = "bind"
                      /\ UNCHANGED sub_ret
    /\ UNCHANGED <<loopvars, flag, parsevars, auxvars, session,
                   sub_turn, last_content,
                   tool_left, produced>>

\* execute() calls run_subagent(**keywords): a keyword that is not a parameter
\* makes the call raise TypeError before run_subagent runs, and the except
\* clause decides what execute gives back.
SubBind ==
    /\ sub_pc = "bind"
    /\ IF CallBinds(PassedKeywords, AcceptedKeywords)
       THEN /\ sub_pc' = "loop"
            /\ UNCHANGED sub_ret
       ELSE /\ sub_ret' = ExecuteCatch("TypeError")
            /\ sub_pc' = IF sub_ret'.kind = "raise" THEN "tool_raised"
                         ELSE "tool_returned"
    /\ UNCHANGED <<loopvars, flag, parsevars, auxvars, session,
                   config_tools, sub_tools,
                   max_turns, sub_turn, last_content, tool_left, produced>>

\* The next tool call of the outer loop may again be the subagent tool.
SubAgain ==
    /\ sub_pc \in {"tool_returned", "tool_raised", "returned", "raised"}
    /\ sub_pc' = "idle"
    /\ config_tools' = {}
    /\ sub_tools' = {}
    /\ max_turns' = 0
    /\ sub_turn' = 0
    /\ last_content' = Null
    /\ tool_left' = 0
    /\ produced' = <<>>
    /\ session' = NoSession
    /\ sub_ret' = NoReturn
    /\ sub_result' = "none"
    /\ UNCHANGED <<loopvars, flag, parsevars, monvars, promptvars, statusvars>>

\* --------------------------------------------------------- run_subagent
\* Mutant of HasNextTurn: the loop runs one turn more.
OneTurnMore(t, limit) == t <= limit

\* for turn in range(1, max_turns + 1): there is a turn after turn t.
HasNextTurn(t, limit) == t < limit

\* last_content is replaced by a text that is not empty.
KeepLast(last, content) == IF content # Null THEN content ELSE last

\* return last_content or "Subagent completed without response."
FinalResult(last) ==
    IF last # Null THEN Ret("text", "model", last)
    ELSE Ret("text", "Subagent completed without response.", 0)

\* The variables of run_repl_loop other than the conversation state a session
\* has a counterpart of.
loopnoconv == <<api, skip_permission, pc, monitoring, total_input_tokens,
                total_output_tokens, workers, nw, turn, current_input,
                interrupted, result, i, rwi, req, executed, answered,
                preGrant, flagWhileRunning, firstCall, prevInterrupted,
                preReset, issued, lookup>>

\* Mutant of Private: the session writes to the outer client's attribute.
Shared(own, outer, new) == [own |-> own, outer |-> new]

\* A session assigns new to its local; the attribute of the same name of the
\* outer client is another variable and keeps its value.
Private(own, outer, new) == [own |-> new, outer |-> outer]

\* What a session does to a conversation when the response of the model
\* call has arrived: the stateless one appends the assistant message; the
\* stateful one stores the response id and starts an empty output list.
SessionResponds(own, outer, t) ==
    [messages |-> Private(own.messages, outer.messages,
                          IF api = "completion"
                          THEN Append(own.messages, "assistant")
                          ELSE own.messages),
     previous_response_id |-> Private(own.previous_response_id,
                                      outer.previous_response_id,
                                      IF api = "responses" THEN t
                                      ELSE own.previous_response_id),
     tool_outputs |-> Private(own.tool_outputs, outer.tool_outputs,
                              IF api = "responses" THEN <<>>
                              ELSE own.tool_outputs)]

\* What a session does when a tool has run: the stateless one appends a tool
\* message, the stateful one appends a function_call_output.
SessionAnswers(own, outer) ==
    [messages |-> Private(own.messages, outer.messages,
                          IF api = "completion"
                          THEN Append(own.messages, "tool")
                          ELSE own.messages),
     previous_response_id |-> Private(own.previous_response_id,
                                      outer.previous_response_id,
                                      own.previous_response_id),
     tool_outputs |-> Private(own.tool_outputs, outer.tool_outputs,
                              IF api = "responses"
                              THEN Append(own.tool_outputs, "output")
                              ELSE own.tool_outputs)]

\* The conversation state of the outer client, by attribute.
Outer == [messages |-> messages,
          previous_response_id |-> previous_response_id,
          tool_outputs |-> pending_tool_outputs]

\* The session and the outer client take the values a write has produced.
Written(w) ==
    /\ session' = [messages |-> w.messages.own,
                   previous_response_id |-> w.previous_response_id.own,
                   tool_outputs |-> w.tool_outputs.own]
    /\ messages' = w.messages.outer
    /\ previous_response_id' = w.previous_response_id.outer
    /\ pending_tool_outputs' = w.tool_outputs.outer

\* run_subagent called with keywords it declares: the registry is built and
\* the session of the api mode starts.
RunSubagent ==
    /\ sub_pc = "idle"
    /\ \E mt \in -1..MaxTurns : max_turns' = mt
    /\ session' = [NoSession EXCEPT !.messages =
                       IF api = "completion" THEN <<"system", "user">> ELSE <<>>]
    /\ sub_pc' = "loop"
    /\ UNCHANGED <<loopvars, flag, parsevars, auxvars, config_tools, sub_tools,
                   sub_turn, last_content, tool_left, produced, sub_ret>>

\* The head of the for loop: the session returns when the turns are used up,
\* raises InterruptRequested when the flag is set, and goes to the model call
\* otherwise.
SubLoop ==
    /\ sub_pc = "loop"
    /\ IF ~HasNextTurn(sub_turn, max_turns)
       THEN /\ sub_ret' = FinalResult(last_content)
            /\ sub_pc' = "returned"
            /\ UNCHANGED sub_turn
       ELSE IF flag
       THEN /\ sub_ret' = Ret("raise", "InterruptRequested", 0)
            /\ sub_pc' = "raised"
            /\ UNCHANGED sub_turn
       ELSE /\ sub_turn' = sub_turn + 1
            /\ sub_pc' = "call"
            /\ UNCHANGED sub_ret
    /\ UNCHANGED <<loopvars, flag, parsevars, auxvars, session,
                   config_tools, sub_tools,
                   max_turns, last_content, tool_left, produced>>

\* The model call answers: the text, when there is one, replaces
\* last_content; with function calls the tools run, without the loop breaks.
SubRespond ==
    /\ sub_pc = "call"
    /\ \E has_text \in BOOLEAN, n \in 0..MaxSubCalls :
         LET content == IF has_text THEN sub_turn ELSE Null
         IN  /\ produced' = Append(produced, [content |-> content, calls |-> n])
             /\ last_content' = KeepLast(last_content, content)
             /\ tool_left' = n
             /\ IF n > 0
                THEN /\ sub_pc' = "tools"
                     /\ UNCHANGED sub_ret
                ELSE /\ sub_ret' = FinalResult(last_content')
                     /\ sub_pc' = "returned"
    /\ Written(SessionResponds(session, Outer, sub_turn))
    /\ UNCHANGED <<loopnoconv, flag, parsevars, auxvars, config_tools,
                   sub_tools, max_turns, sub_turn>>

\* The model call raises: run_with_interrupt raises InterruptRequested when
\* the flag is set, and the error of the remote call otherwise.
SubCallRaises ==
    /\ sub_pc = "call"
    /\ \E exc \in {"InterruptRequested", "APIError"} :
         /\ (exc = "InterruptRequested") => flag
         /\ sub_ret' = Ret("raise", exc, 0)
    /\ sub_pc' = "raised"
    /\ UNCHANGED <<loopvars, flag, parsevars, auxvars, session,
                   config_tools, sub_tools,
                   max_turns, sub_turn, last_content, tool_left, produced>>

\* One function call of the response: the flag is read first, then
\* registry.execute is called.
SubTool ==
    /\ sub_pc = "tools"
    /\ tool_left > 0
    /\ IF flag
       THEN /\ sub_ret' = Ret("raise", "InterruptRequested", 0)
            /\ sub_pc' = "raised"
       ELSE /\ sub_pc' = "exec"
            /\ UNCHANGED sub_ret
    /\ UNCHANGED <<loopvars, flag, parsevars, auxvars, config_tools, sub_tools,
                   max_turns, sub_turn, last_content, tool_left, produced,
                   session>>

\* What registry.execute may do inside a session: return the tool's text,
\* raise an error, or, in a tool that polls the handler (run_command), raise
\* InterruptRequested once the flag is set.
SessionToolOutcomes(f) ==
    {"returned", "Kind"} \cup (IF f THEN {"InterruptRequested"} ELSE {})

\* try: result = registry.execute(...) except Exception as e: result =
\* f"Error: {type(e).__name__}: {e}". InterruptRequested is an Exception and
\* its message is empty.
SessionCatch(outcome) ==
    IF outcome = "returned" THEN "text"
    ELSE IF outcome = "InterruptRequested" THEN "Error: InterruptRequested: "
    ELSE "Error: Kind: message"

\* registry.execute has returned or raised: the result is recorded as the
\* answer of the function call, and the loop goes to the next one.
SubToolDone ==
    /\ sub_pc = "exec"
    /\ \E outcome \in SessionToolOutcomes(flag) :
         sub_result' = SessionCatch(outcome)
    /\ tool_left' = tool_left - 1
    /\ Written(SessionAnswers(session, Outer))
    /\ sub_pc' = "tools"
    /\ UNCHANGED <<loopnoconv, flag, parsevars, monvars, promptvars,
                   statusvars, config_tools, sub_tools, max_turns, sub_turn,
                   last_content, produced, sub_ret>>

\* Every function call of the response is answered: continue.
SubContinue ==
    /\ sub_pc = "tools"
    /\ tool_left = 0
    /\ sub_pc' = "loop"
    /\ UNCHANGED <<loopvars, flag, parsevars, auxvars, session,
                   config_tools, sub_tools,
                   max_turns, sub_turn, last_content, tool_left, produced,
                   sub_ret>>

\* The signal handler sets the flag while the subagent tool runs.
SubInterrupt ==
    /\ sub_pc \in {"bind", "loop", "call", "tools", "exec"}
    /\ ~flag
    /\ flag' = TRUE
    /\ UNCHANGED <<loopvars, subvars, parsevars, auxvars>>

SubNext ==
    \/ SubExecute
    \/ SubBind
    \/ SubAgain
    \/ RunSubagent
    \/ SubLoop
    \/ SubRespond
    \/ SubCallRaises
    \/ SubTool
    \/ SubToolDone
    \/ SubContinue
    \/ SubInterrupt

SubSpec == Init /\ [][SubNext]_vars

\* ----------------------------------------------------- parse_tool_result
\* The symbols of a tool result: "[IMAGE" stands for these six characters,
\* "x" for any character that is not a colon, a bracket or a newline.
Symbols == {"[IMAGE", ":", "]", "x", "\n"}

\* The tool results of at most MaxLen symbols.
Texts == UNION {[1..n -> Symbols] : n \in 0..MaxLen}

\* $ after position e: at the end of the string, or before a newline that is
\* the last character.
DollarAt(t, e) ==
    \/ e = Len(t)
    \/ e = Len(t) - 1 /\ t[Len(t)] = "\n"

\* ([^:]+): ends at c - 1, where c is the first colon behind "[IMAGE:"; any
\* other character, a newline included, is allowed.
MimeEnd(t) ==
    IF \E c \in 3..Len(t) : t[c] = ":"
    THEN CHOOSE c \in 3..Len(t) : t[c] = ":" /\ \A j \in 3..(c - 1) : t[j] # ":"
    ELSE 0

\* (.+)\]$ behind the colon at c: the position of the closing bracket, 0 when
\* there is none; the payload is not empty and holds no newline.
BracketAt(t, c) ==
    LET ends == {e \in (c + 2)..Len(t) :
                     /\ t[e] = "]"
                     /\ DollarAt(t, e)
                     /\ \A j \in (c + 1)..(e - 1) : t[j] # "\n"}
    IN  IF ends = {} THEN 0 ELSE CHOOSE e \in ends : \A f \in ends : f <= e

\* IMAGE_PATTERN.match(result): the groups, or no match.
ImagePatternMatch(t) ==
    IF /\ Len(t) >= 2
       /\ t[1] = "[IMAGE"
       /\ t[2] = ":"
       /\ MimeEnd(t) > 3
       /\ BracketAt(t, MimeEnd(t)) > 0
    THEN [matched |-> TRUE,
          g1 |-> SubSeq(t, 3, MimeEnd(t) - 1),
          g2 |-> SubSeq(t, MimeEnd(t) + 1, BracketAt(t, MimeEnd(t)) - 1)]
    ELSE [matched |-> FALSE, g1 |-> <<>>, g2 |-> <<>>]

\* parse_tool_result(result): the image mapping on a match, else the string.
ParseToolResult(t) ==
    LET m == ImagePatternMatch(t)
    IN  IF m.matched
        THEN [kind |-> "image", mime_type |-> m.g1, base64_data |-> m.g2,
              text |-> <<>>]
        ELSE [kind |-> "text", mime_type |-> <<>>, base64_data |-> <<>>,
              text |-> t]

\* The loop hands the text a tool returned to parse_tool_result.
Parse ==
    /\ parsed = NotParsed
    /\ parsed' = ParseToolResult(text)
    /\ UNCHANGED <<loopvars, flag, subvars, auxvars, text>>

ParseInit ==
    /\ LoopInit
    /\ SubIdle
    /\ MonIdle
    /\ StatusIdle
    /\ text \in Texts
    /\ parsed = NotParsed

ParseNext == Parse

ParseSpec == ParseInit /\ [][ParseNext]_vars

\* The positions of the loop inside a batch of tool calls.
BatchPcs == {"check1", "perm", "check2", "exec"}

\* The contents recorded as the answer of the tool call id in the history
\* msgs (stateless history) or in the queue pend (stateful chain).
RecordedIn(msgs, pend, id) ==
    IF api = "completion"
    THEN {msgs[p].content : p \in {q \in 1..Len(msgs) :
              msgs[q].role = "tool" /\ msgs[q].id = id}}
    ELSE {pend[p].output : p \in {q \in 1..Len(pend) : pend[q].call_id = id}}

Recorded(id) == RecordedIn(messages, pending_tool_outputs, id)

\* C11: a result without tool calls ends the turn (the text or the warning is
\* shown, no further call), a result with tool calls starts the batch, and a
\* batch that is not interrupted is followed by another model call whose input
\* is the queued outputs of that batch (stateful chain) or whose history holds
\* the batch's tool messages (stateless history).
C11_LoopEndsOnNoToolCalls ==
    [][/\ (pc = "wait" /\ rwi'.kind = "value") =>
              pc' = IF result'.tool_calls = <<>> THEN "show" ELSE "check1"
       /\ (pc = "show" /\ pc' # "show") =>
              (pc' = "top" /\ nw' = nw /\ ~monitoring' /\ ~interrupted)
       /\ (pc \in BatchPcs /\ pc' \notin BatchPcs) =>
              \/ interrupted'
              \/ /\ pc' = "call"
                 /\ answered' = result.tool_calls
                 /\ IF api = "responses"
                    THEN /\ current_input'.kind = "outputs"
                         /\ [k \in 1..Len(current_input'.outs) |->
                                current_input'.outs[k].call_id] = result.tool_calls
                    ELSE ToolIdsAfter(messages', result.tool_calls) = result.tool_calls
       /\ (pc = "call" /\ pc' = "wait") => workers'[nw'].input = current_input
      ]_vars

\* The step in which execute_tool returns for a call whose registry lookup
\* ended as how, and what the step must do: the text is recorded under the
\* call's id, and the loop goes to the next call of the batch or, after the
\* last one, to the follow-up model call, inside the monitoring scope.
AnsweredWith(how, content) ==
    (pc = "exec" /\ lookup = how /\ pc' # "exec") =>
        /\ content \in RecordedIn(messages', pending_tool_outputs', CurId)
        /\ answered' = Append(answered, CurId)
        /\ executed' = executed
        /\ ~interrupted'
        /\ monitoring'
        /\ IF i < Len(result.tool_calls)
           THEN pc' = "check1" /\ i' = i + 1
           ELSE pc' = "call"

\* C14: when a tool raises anything but an interruption, the call is answered
\* with the error text "Error: <kind>: <message>", the rest of the batch is
\* executed and the turn continues.
C14_ToolErrorAnswered ==
    [][AnsweredWith("raised", "Error: Kind: message")]_vars

\* The first call of a batch of two raised, both calls ran and are answered,
\* and the follow-up model call is about to be issued.
C14_Witness ==
    /\ pc = "call"
    /\ Len(answered) = 2
    /\ executed = answered
    /\ "Error: Kind: message" \in Recorded(answered[1])
    /\ "ok" \in Recorded(answered[2])
    /\ ~interrupted

\* C15: a tool call whose name is not registered is answered, under its id,
\* with "Error: Unknown tool: <name>"; no tool is executed for it and the
\* batch proceeds.
C15_UnknownToolAnswered ==
    [][/\ AnsweredWith("unknown", "Error: Unknown tool: name")
       /\ (pc = "exec" /\ lookup = "unknown") => Pos(executed, CurId) = 0
      ]_vars

\* The first call of a batch of two named no registered tool: it is answered
\* without having been executed, the second one ran.
C15_Witness ==
    /\ pc = "call"
    /\ Len(answered) = 2
    /\ executed = <<answered[2]>>
    /\ "Error: Unknown tool: name" \in Recorded(answered[1])
    /\ "ok" \in Recorded(answered[2])

\* C16: a function call whose arguments are not valid JSON is decoded to the
\* empty mapping in both clients: call() returns its result, no decoding error
\* is stored by the worker or raised to the loop.
C16_MalformedArgumentsDecoded ==
    /\ \A w \in Workers :
         /\ workers[w].out.exc # "JSONDecodeError"
         /\ \A k \in 1..Len(workers[w].out.res.args) :
              workers[w].out.res.args[k] \in {"parsed", "empty"}
    /\ rwi.exc # "JSONDecodeError"
    /\ \A k \in 1..Len(result.args) : result.args[k] \in {"parsed", "empty"}

\* The positions of the loop inside reset_context().
ResetPcs == {"reset", "reset_if", "reset_tok"}

\* C17: an error of the remote call ends the turn in the outer handler:
\* monitoring is released, reset_context() runs and the loop is back at the
\* prompt; the loop is left only from the prompt.
C17_ErrorReturnsToPrompt ==
    [][/\ (pc = "wait" /\ rwi'.kind = "error") =>
              (pc' = "reset" /\ ~monitoring' /\ preReset' = Snapshot)
       /\ (pc \in ResetPcs) => (pc' \in ResetPcs \cup {"top"} /\ ~monitoring')
       /\ (pc' = "exit") => pc \in {"input", "exit"}
      ]_vars

\* The remote call raised, the scope is left and reset_context() is at its
\* last step, from which the loop goes back to its top.
C17_Witness ==
    /\ pc \in {"reset_if", "reset_tok"}
    /\ rwi.kind = "error"
    /\ rwi.exc = "APIError"
    /\ ~monitoring

\* C19: the first request of a turn carries the user's input and no tool
\* outputs; a follow-up request carries the outputs queued by the batch
\* (stateful chain) and never the user's text again, and in the stateless
\* history it appends no user message.
C19_InputConsumedOnce ==
    [][\A w \in Workers :
         (workers[w].pc = "start" /\ workers'[w].pc = "sent") =>
            IF workers[w].first
            THEN /\ req'.kind \in {"str", "list"}
                 /\ req'.outs = <<>>
            ELSE /\ api = "responses" =>
                        (req'.kind = "outputs" /\ req'.outs # <<>>)
                 /\ messages' = messages
      ]_vars

\* The content of the last response that had a text, Null when none had.
LastText(history) ==
    LET with_text == {k \in 1..Len(history) : history[k].content # Null}
    IN  IF with_text = {} THEN Null
        ELSE history[CHOOSE k \in with_text : \A j \in with_text : j <= k].content

\* C12: a subagent session makes at most max_turns model calls (none when
\* max_turns is not positive), and what it returns is the last text that was
\* not empty, or the fixed sentence when no response had a text.
C12_BoundedSession ==
    /\ Len(produced) <= (IF max_turns > 0 THEN max_turns ELSE 0)
    /\ sub_turn <= (IF max_turns > 0 THEN max_turns ELSE 0)
    /\ sub_pc \in {"call", "tools"} => Len(produced) \in {sub_turn - 1, sub_turn}
    /\ sub_pc = "returned" =>
           sub_ret = IF LastText(produced) # Null
                     THEN Ret("text", "model", LastText(produced))
                     ELSE Ret("text", "Subagent completed without response.", 0)

\* Every response asked for tools, the turns are used up, and the text
\* returned is that of the first response because the last one had none.
C12_Witness ==
    /\ sub_pc = "returned"
    /\ max_turns = MaxTurns
    /\ Len(produced) = MaxTurns
    /\ \A k \in 1..Len(produced) : produced[k].calls > 0
    /\ produced[1].content # Null
    /\ produced[Len(produced)].content = Null
    /\ sub_ret = Ret("text", "model", produced[1].content)

\* C13: the tool list built for a subagent session never holds the subagent
\* tool, whatever the configuration of the type lists.
C13_NoNestedSubagent == "subagent" \notin sub_tools

\* The type lists "subagent" and a registered tool, and the session is about
\* to be started with the list built from it.
C13_Witness ==
    /\ sub_pc = "bind"
    /\ "subagent" \in config_tools
    /\ sub_tools # {}

\* C18: when running the subagent fails with anything but an interruption,
\* SubAgentTool.execute returns an error text instead of raising.
C18_FailureBecomesText ==
    [][(sub_pc = "bind" /\ sub_pc' # "bind" /\ sub_pc' # "loop") =>
           /\ sub_pc' = "tool_returned"
           /\ sub_ret' = Ret("text", "Error running subagent: Kind: message", 0)
      ]_vars

\* The form [IMAGE:<mime-type>:<base64-payload>] on a single line: the mime
\* type is not empty and holds no colon, the payload is not empty.
IsMarker(t) ==
    /\ \A j \in 1..Len(t) : t[j] # "\n"
    /\ Len(t) >= 6
    /\ t[1] = "[IMAGE"
    /\ t[2] = ":"
    /\ t[Len(t)] = "]"
    /\ \E c \in 4..(Len(t) - 2) : t[c] = ":" /\ \A j \in 3..(c - 1) : t[j] # ":"

\* C20: parse_tool_result returns the image mapping exactly for a single-line
\* text of the form [IMAGE:<mime-type>:<base64-payload>], with the mime type
\* and the payload of the text; every other text is returned as it is.
C20_MediaExactlyMarker ==
    parsed # NotParsed =>
        /\ (parsed.kind = "image") <=> IsMarker(text)
        /\ parsed.kind = "image" =>
               text = <<"[IMAGE", ":">> \o parsed.mime_type \o <<":">>
                          \o parsed.base64_data \o <<"]">>
        /\ parsed.kind = "text" => parsed.text = text

\* ------------------------------------------------ the monitoring scope
\* The variables of run_repl_loop that the monitoring scope does not touch.
loopquiet == <<api, skip_permission, pc, messages, previous_response_id,
               pending_tool_outputs, total_input_tokens, total_output_tokens,
               workers, nw, turn, current_input, interrupted, result, i, rwi,
               req, executed, answered, preGrant, flagWhileRunning, firstCall,
               prevInterrupted, preReset, issued, lookup>>

\* The outcomes of an operation of monitor s's thread on its copy of the
\* descriptor: it works on an open descriptor; on a closed one it fails, or,
\* when a later monitor has opened /dev/tty and got the same number, works.
Usable(s) ==
    IF monitors[s].tty_fd = "open" THEN {TRUE}
    ELSE IF \E r \in 1..MaxScopes : r # s /\ monitors[r].tty_fd = "open"
    THEN {TRUE, FALSE}
    ELSE {FALSE}

\* Mutant of RestoreSigint: the handler in place is left installed.
KeepSigint(orig, cur) == cur

\* stop_monitoring: the handler saved by start_monitoring is installed again.
RestoreSigint(orig, cur) == IF orig # "none" THEN orig ELSE cur

\* Top of the outer loop: interrupt_handler.reset().
MReset ==
    /\ mon_pc = "top"
    /\ flag' = FALSE
    /\ mon_pc' = "prompt"
    /\ UNCHANGED <<loopquiet, monitoring, subvars, parsevars, sidevars, sigint,
                   original_handler, esc_monitor, monitors, nscopes, term,
                   left_by>>

\* The prompt returns a text: the loop is about to enter the scope.
MPrompt ==
    /\ mon_pc = "prompt"
    /\ nscopes < MaxScopes
    /\ mon_pc' = "enter"
    /\ UNCHANGED <<loopquiet, monitoring, flag, subvars, parsevars, sidevars, sigint,
                   original_handler, esc_monitor, monitors, nscopes, term,
                   left_by>>

\* start_monitoring(): the SIGINT handler is installed and the previous one
\* kept, a new EscKeyMonitor is started (without a terminal it starts no
\* thread), _monitoring is set.
MStartMonitoring ==
    /\ mon_pc = "enter"
    /\ IF monitoring
       THEN UNCHANGED <<monitoring, sigint, original_handler, esc_monitor,
                        monitors, nscopes>>
       ELSE /\ original_handler' = sigint
            /\ sigint' = "handler"
            /\ nscopes' = nscopes + 1
            /\ esc_monitor' = nscopes + 1
            /\ \E tty \in BOOLEAN :
                 monitors' = [monitors EXCEPT ![nscopes + 1] =
                     IF tty
                     THEN [started |-> TRUE, stop_event |-> FALSE,
                           tty_fd |-> "open", thread |-> "setup",
                           old_settings |-> "none"]
                     ELSE NewMonitor]
            /\ monitoring' = TRUE
    /\ mon_pc' = "body"
    /\ UNCHANGED <<loopquiet, flag, subvars, parsevars, sidevars, term, left_by>>

\* The body of the with statement ends: normally, by InterruptRequested, or
\* by the error of a call.
MBody ==
    /\ mon_pc = "body"
    /\ \E how \in {"normal", "interrupted", "error"} :
         /\ (how = "interrupted") => flag
         /\ left_by' = how
    /\ mon_pc' = "stop"
    /\ UNCHANGED <<loopquiet, monitoring, flag, subvars, parsevars, sidevars, sigint,
                   original_handler, esc_monitor, monitors, nscopes, term>>

\* stop_monitoring() up to EscKeyMonitor.stop(): a monitor that was started
\* has its stop event set; one that was not started returns at once.
MStopEsc ==
    /\ mon_pc = "stop"
    /\ IF ~monitoring
       THEN /\ mon_pc' = "top"
            /\ UNCHANGED <<monitors, esc_monitor>>
       ELSE IF esc_monitor # Null /\ monitors[esc_monitor].started
       THEN /\ monitors' = [monitors EXCEPT ![esc_monitor].stop_event = TRUE]
            /\ mon_pc' = "join"
            /\ UNCHANGED esc_monitor
       ELSE /\ esc_monitor' = Null
            /\ mon_pc' = "restore"
            /\ UNCHANGED monitors
    /\ UNCHANGED <<loopquiet, monitoring, flag, subvars, parsevars, sidevars, sigint,
                   original_handler, nscopes, term, left_by>>

\* EscKeyMonitor.stop(), the rest: join(timeout=0.5) returns, with the thread
\* finished or not; the descriptor is closed and the monitor dropped.
MJoin ==
    /\ mon_pc = "join"
    /\ monitors' = [monitors EXCEPT ![esc_monitor].tty_fd = "closed",
                                    ![esc_monitor].started = FALSE]
    /\ esc_monitor' = Null
    /\ mon_pc' = "restore"
    /\ UNCHANGED <<loopquiet, monitoring, flag, subvars, parsevars, sidevars, sigint,
                   original_handler, nscopes, term, left_by>>

\* stop_monitoring(), the rest: the SIGINT handler is restored and
\* _monitoring cleared; the loop goes on behind the with statement.
MRestore ==
    /\ mon_pc = "restore"
    /\ sigint' = RestoreSigint(original_handler, sigint)
    /\ original_handler' = "none"
    /\ monitoring' = FALSE
    /\ mon_pc' = "top"
    /\ UNCHANGED <<loopquiet, flag, subvars, parsevars, sidevars, esc_monitor, monitors,
                   nscopes, term, left_by>>

\* SIGINT is delivered while the handler of start_monitoring is installed.
Sigint ==
    /\ sigint = "handler"
    /\ ~flag
    /\ flag' = TRUE
    /\ UNCHANGED <<loopvars, subvars, parsevars, auxvars>>

\* _monitor_unix, before the loop: the terminal settings are saved and the
\* terminal is put into raw mode; on failure the thread returns.
TSetup(s) ==
    /\ monitors[s].thread = "setup"
    /\ \E ok \in Usable(s) :
         IF ok
         THEN /\ monitors' = [monitors EXCEPT ![s].old_settings = term,
                                              ![s].thread = "loop"]
              /\ term' = "raw"
         ELSE /\ monitors' = [monitors EXCEPT ![s].thread = "done"]
              /\ UNCHANGED term
    /\ UNCHANGED <<loopvars, flag, subvars, parsevars, sidevars, mon_pc, sigint,
                   original_handler, esc_monitor, nscopes, left_by>>

\* _monitor_unix: while not self._stop_event.is_set().
TCheck(s) ==
    /\ monitors[s].thread = "loop"
    /\ monitors' = [monitors EXCEPT ![s].thread =
                       IF monitors[s].stop_event THEN "restore" ELSE "select"]
    /\ UNCHANGED <<loopvars, flag, subvars, parsevars, sidevars, mon_pc, sigint,
                   original_handler, esc_monitor, nscopes, term, left_by>>

\* _monitor_unix: select and read; after Esc the thread is about to call
\* request_interrupt(), an error of select or read leaves the loop.
TSelect(s) ==
    /\ monitors[s].thread = "select"
    /\ \E ok \in Usable(s) :
         IF ok
         THEN \E key \in {"none", "esc"} :
                  monitors' = [monitors EXCEPT ![s].thread =
                                   IF key = "esc" THEN "esc" ELSE "loop"]
         ELSE monitors' = [monitors EXCEPT ![s].thread = "restore"]
    /\ UNCHANGED <<loopvars, flag, subvars, parsevars, sidevars, mon_pc, sigint,
                   original_handler, esc_monitor, nscopes, term, left_by>>

\* _monitor_unix: self._handler.request_interrupt() for the Esc just read.
TRequest(s) ==
    /\ monitors[s].thread = "esc"
    /\ flag' = TRUE
    /\ monitors' = [monitors EXCEPT ![s].thread = "loop"]
    /\ UNCHANGED <<loopvars, subvars, parsevars, sidevars, mon_pc, sigint,
                   original_handler, esc_monitor, nscopes, term, left_by>>

\* _monitor_unix, finally: the saved settings are written back; a failure is
\* ignored.
TRestore(s) ==
    /\ monitors[s].thread = "restore"
    /\ \E ok \in Usable(s) :
         term' = IF ok THEN monitors[s].old_settings ELSE term
    /\ monitors' = [monitors EXCEPT ![s].thread = "done"]
    /\ UNCHANGED <<loopvars, flag, subvars, parsevars, sidevars, mon_pc, sigint,
                   original_handler, esc_monitor, nscopes, left_by>>

MonNext ==
    \/ MReset
    \/ MPrompt
    \/ MStartMonitoring
    \/ MBody
    \/ MStopEsc
    \/ MJoin
    \/ MRestore
    \/ Sigint
    \/ \E s \in 1..MaxScopes : TSetup(s)
    \/ \E s \in 1..MaxScopes : TCheck(s)
    \/ \E s \in 1..MaxScopes : TSelect(s)
    \/ \E s \in 1..MaxScopes : TRequest(s)
    \/ \E s \in 1..MaxScopes : TRestore(s)

MonSpec == Init /\ [][MonNext]_vars

\* The worker whose response issued the tool call id.
IssuerOf(id) == id \div (MaxToolCalls + 1)

\* C21: when a call of a batch is interrupted (flag seen before the prompt or
\* before execution, or the prompt cancelled), nothing more of the batch is
\* executed or answered, the loop goes to reset_context() and from there to
\* the top without a further model call; calls executed or answered later
\* belong to the response of a later model call.
C21_PartialBatchAbandoned ==
    [][/\ (/\ pc \in {"check1", "perm", "check2"}
           /\ pc' \notin BatchPcs \cup {"call"}) =>
              /\ pc' = "reset"
              /\ interrupted'
              /\ executed' = executed
              /\ answered' = answered
              /\ nw' = nw
       /\ (pc \in {"check1", "check2"} /\ flag /\ pc' # pc) => pc' = "reset"
       /\ (pc \in ResetPcs) =>
              /\ pc' \in ResetPcs \cup {"top"}
              /\ nw' = nw
              /\ pc' # "top" => (executed' = executed /\ answered' = answered)
       /\ (pc' \in BatchPcs) =>
              /\ \A k \in 1..Len(executed') : IssuerOf(executed'[k]) = nw'
              /\ \A k \in 1..Len(answered') : IssuerOf(answered'[k]) = nw'
      ]_vars

\* The first call of a batch of two is answered, the second one was
\* interrupted, and reset_context() is about to run.
C21_Witness ==
    /\ pc = "reset"
    /\ interrupted
    /\ Len(result.tool_calls) = 2
    /\ Len(answered) = 1

\* The permission step without the sentence about the allowed tool: with
\* skip_permission no prompt is requested, a denial answers the call with the
\* denial text without executing it and the batch goes on, a cancellation sets
\* the flag and ends the turn as interrupted.
PermissionStep ==
    /\ (pc = "check1" /\ pc' # pc /\ ~flag) =>
           pc' = IF skip_permission THEN "check2" ELSE "perm"
    /\ skip_permission => pc' # "perm"
    /\ (pc = "perm" /\ pc' # pc) =>
           \/ /\ pc' = "check2"
              /\ flag' = flag
              /\ executed' = executed
              /\ answered' = answered
           \/ /\ pc' = IF i < Len(result.tool_calls) THEN "check1" ELSE "call"
              /\ answered' = Append(answered, CurId)
              /\ "Error: Tool execution was denied by user."
                     \in RecordedIn(messages', pending_tool_outputs', CurId)
              /\ executed' = executed
              /\ flag' = flag
              /\ ~interrupted'
           \/ /\ pc' = "reset"
              /\ flag'
              /\ interrupted'
              /\ executed' = executed
              /\ answered' = answered

\* C22: the permission step has the outcomes allow, deny and cancel, and is
\* skipped with skip_permission; a tool that is allowed, or not subject to a
\* prompt, is executed unless the flag is set when execution is about to
\* start.
C22_PermissionOutcomes ==
    [][/\ PermissionStep
       /\ (pc = "check2" /\ pc' # pc) =>
              IF flag THEN pc' = "reset" /\ executed' = executed
              ELSE pc' = "exec"
      ]_vars

\* C22 as stated: an allowed tool is executed, whatever the flag.
C22_AllowAlwaysExecutes ==
    [][/\ PermissionStep
       /\ (pc = "check2" /\ pc' # pc) =>
              IF skip_permission /\ flag THEN pc' = "reset"
              ELSE pc' = "exec"
      ]_vars

\* The first call of a batch was denied and answered with the denial text,
\* the second one was allowed at the prompt and its tool is running.
C22_Witness ==
    /\ ~skip_permission
    /\ pc = "exec"
    /\ lookup = "found"
    /\ Len(answered) = 1
    /\ "Error: Tool execution was denied by user." \in Recorded(answered[1])
    /\ executed = <<CurId>>

\* C23: a subagent session raises InterruptRequested when the flag is set
\* before a model call or before a tool execution, and a subagent tool call
\* started with the flag set and at least one turn ends with that exception
\* leaving SubAgentTool.execute.
C23_InterruptPassesThrough ==
    [][/\ (sub_pc = "loop" /\ flag /\ HasNextTurn(sub_turn, max_turns)) =>
              sub_ret' = Ret("raise", "InterruptRequested", 0)
       /\ (sub_pc = "tools" /\ tool_left > 0 /\ flag) =>
              sub_ret' = Ret("raise", "InterruptRequested", 0)
       /\ (sub_pc = "bind" /\ flag /\ max_turns > 0) =>
              sub_ret' = Ret("raise", "InterruptRequested", 0)
      ]_vars

\* The call ids of a sequence of queued outputs.
CallIdsOf(outs) == [k \in 1..Len(outs) |-> outs[k].call_id]

\* C24: in the stateful chain the follow-up call issued after a batch is
\* given exactly the outputs of that batch, in the order they were queued,
\* the request of the live worker carries them, the queue is empty when call()
\* has returned, and it is empty when the next batch starts to queue.
C24_QueueDrainedOnce ==
    [][api = "responses" =>
         /\ (pc \in BatchPcs /\ pc' = "call") =>
                /\ current_input'.kind = "outputs"
                /\ CallIdsOf(current_input'.outs) = result.tool_calls
         /\ \A w \in Workers :
                (/\ w = nw /\ workers[w].st = "live"
                 /\ workers[w].pc = "start" /\ workers'[w].pc = "sent"
                 /\ workers[w].input.kind = "outputs") =>
                    CallIdsOf(req'.outs) = answered
         /\ \A w \in Workers :
                (/\ workers[w].pc = "sent" /\ workers'[w].pc = "done"
                 /\ previous_response_id' = w) =>
                    pending_tool_outputs' = <<>>
         /\ (pc = "wait" /\ pc' = "check1") => pending_tool_outputs' = <<>>
      ]_vars

\* C25: reset() at the top of the outer loop clears the flag, and at that
\* moment no worker of run_with_interrupt is still running client.call.
C25_ResetOnlyWhenQuiet ==
    [][(pc = "top" /\ pc' = "input") =>
           /\ ~flag'
           /\ \A w \in Workers : workers[w].pc \notin {"start", "sent"}
      ]_vars

\* A keystroke thread that is still running.
Alive(s) == monitors[s].thread \notin {"none", "done"}

\* C26: outside the monitoring scope, however its body ended and whether or
\* not the keystroke thread had finished when join returned, every keystroke
\* thread still running has been asked to stop, the SIGINT handler found by
\* start_monitoring is installed again, and the handler is in the
\* not-monitoring state with no monitor attached.
C26_ScopeReleased ==
    mon_pc \in {"top", "prompt", "enter"} =>
        /\ sigint = "original"
        /\ original_handler = "none"
        /\ ~monitoring
        /\ esc_monitor = Null
        /\ \A s \in 1..MaxScopes : Alive(s) => monitors[s].stop_event
        /\ \A s \in 1..MaxScopes : ~monitors[s].started

\* The body of the second scope ended with an error, join returned while the
\* keystroke thread was still running, and the loop is back at its top.
C26_Witness ==
    /\ mon_pc = "top"
    /\ nscopes = 2
    /\ left_by = "error"
    /\ Alive(2)

\* C27: no step of a subagent run changes the outer client's history,
\* continuation token or output queue; what the session records goes to its
\* own locals.
C27_OuterStateUntouched ==
    [][/\ messages' = messages
       /\ previous_response_id' = previous_response_id
       /\ pending_tool_outputs' = pending_tool_outputs
       /\ (sub_pc = "call" /\ sub_pc' \in {"tools", "returned"}) =>
              IF api = "completion"
              THEN session'.messages = Append(session.messages, "assistant")
              ELSE session'.previous_response_id = sub_turn
       /\ (sub_pc = "exec" /\ tool_left' < tool_left) =>
              IF api = "completion"
              THEN session'.messages = Append(session.messages, "tool")
              ELSE session'.tool_outputs = Append(session.tool_outputs, "output")
      ]_vars

\* A session has ended after two responses and a tool execution, with its
\* own history or token, and the outer client is as it was constructed.
C27_Witness ==
    /\ sub_pc = "returned"
    /\ Len(produced) = 2
    /\ IF api = "completion"
       THEN Len(session.messages) >= 5
       ELSE session.previous_response_id = 2
    /\ Len(messages) <= 1
    /\ previous_response_id = Null
    /\ pending_tool_outputs = <<>>

\* ------------------------------------------- context budget and status line
\* The fallback of both constructors.
DefaultMaxTokens == 128000

\* The values config.max_input_tokens may hold: None when the configuration
\* has no such key, else a size (0 included).
ConfigValues == {None} \cup {IntVal(n) : n \in 0..MaxSize}

\* What litellm.get_model_info(config.model) may do: raise (unknown model), or
\* return a dict without the key max_input_tokens, or with the key and the
\* value None or a size.
ModelInfos ==
    {[raises |-> TRUE, has |-> FALSE, val |-> None],
     [raises |-> FALSE, has |-> FALSE, val |-> None],
     [raises |-> FALSE, has |-> TRUE, val |-> None]}
    \cup {[raises |-> FALSE, has |-> TRUE, val |-> IntVal(n)] : n \in 1..MaxSize}

\* The token counts get_status_text may see.
Counts == 0..MaxCount

\* bool(v) of an Optional[int].
Truthy(v) == ~v.none /\ v.n # 0

\* dict.get(key, default): the default only when the key is absent.
DictGet(info, default) == IF info.has THEN info.val ELSE IntVal(default)

\* __init__ of both adapters: self.max_tokens.
MaxTokensOf(cfg, info) ==
    IF Truthy(cfg) THEN cfg
    ELSE IF info.raises THEN IntVal(DefaultMaxTokens)
    ELSE DictGet(info, DefaultMaxTokens)

\* a // b of Python for a >= 0 and b > 0: the floor of the quotient.
FloorDiv(a, b) == a \div b

\* f"{x:.1f}" of n / unit as a pair <<whole, tenth>>, rounded to the nearest
\* tenth (no count used here lies half-way between two tenths).
OneDecimal(n, unit) ==
    LET t == (n * 10 + unit \div 2) \div unit IN <<t \div 10, t % 10>>

\* _format_tokens(n): "x.yM", "x.yK" or str(n).
FormatTokens(n) ==
    IF n >= 1000000 THEN <<OneDecimal(n, 1000000), "M">>
    ELSE IF n >= 1000 THEN <<OneDecimal(n, 1000), "K">>
    ELSE <<n>>

\* get_status_text of both adapters for the count c: "Ready" when c is 0, else
\* the text with the percentage; the division raises TypeError when
\* max_tokens is None and ZeroDivisionError when it is 0.
StatusText(c, mt) ==
    IF c = 0 THEN [NoStatus EXCEPT !.kind = "Ready"]
    ELSE IF mt.none THEN [NoStatus EXCEPT !.kind = "TypeError"]
    ELSE IF mt.n = 0 THEN [NoStatus EXCEPT !.kind = "ZeroDivisionError"]
    ELSE [kind |-> "usage", consumed |-> FormatTokens(c),
          available |-> FormatTokens(mt.n),
          percentage |-> FloorDiv(c * 100, mt.n)]

\* CompletionClient(config) / ResponsesClient(config, reasoning_effort).
Construct ==
    /\ st_pc = "new"
    /\ max_input_tokens' \in ConfigValues
    /\ model_info' \in ModelInfos
    /\ max_tokens' = MaxTokensOf(max_input_tokens', model_info')
    /\ st_pc' = "built"
    /\ UNCHANGED <<token_count, status>>
    /\ UNCHANGED <<loopvars, flag, subvars, parsevars, monvars, promptvars,
                   sessvars>>

\* A model call changes the tokens consumed: ResponsesClient adds the usage
\* of the response, CompletionClient counts its messages (0 when
\* litellm.token_counter raises).
Consume ==
    /\ st_pc = "built"
    /\ \E c \in Counts : c # token_count /\ token_count' = c
    /\ UNCHANGED <<st_pc, max_input_tokens, model_info, max_tokens, status>>
    /\ UNCHANGED <<loopvars, flag, subvars, parsevars, monvars, promptvars,
                   sessvars>>

\* console.print(client.get_status_text()) at the top of the loop.
GetStatusText ==
    /\ st_pc = "built"
    /\ status' = StatusText(token_count, max_tokens)
    /\ st_pc' = IF status'.kind \in {"TypeError", "ZeroDivisionError"}
                THEN "failed" ELSE "built"
    /\ UNCHANGED <<max_input_tokens, model_info, max_tokens, token_count>>
    /\ UNCHANGED <<loopvars, flag, subvars, parsevars, monvars, promptvars,
                   sessvars>>

\* get_status_text raised: `except Exception` of the outer loop prints the
\* error and calls reset_context(), which zeroes ResponsesClient's counters;
\* the loop goes on at its top.
StatusError ==
    /\ st_pc = "failed"
    /\ token_count' = IF api = "responses" THEN 0 ELSE token_count
    /\ st_pc' = "built"
    /\ UNCHANGED <<max_input_tokens, model_info, max_tokens, status>>
    /\ UNCHANGED <<loopvars, flag, subvars, parsevars, monvars, promptvars,
                   sessvars>>

StatusNext ==
    \/ Construct
    \/ Consume
    \/ GetStatusText
    \/ StatusError

StatusSpec == Init /\ [][StatusNext]_vars

\* C30: once an adapter is constructed its max_tokens is a positive integer
\* (the configured max_input_tokens when set, else the size the metadata
\* reports, else 128000), and get_status_text does not raise: it returns
\* "Ready" for a count of zero and else the amounts with the percentage
\* count * 100 // max_tokens.
C30_BudgetPositive ==
    /\ (st_pc # "new") =>
          /\ ~max_tokens.none
          /\ max_tokens.n > 0
          /\ max_tokens =
                IF ~max_input_tokens.none /\ max_input_tokens.n > 0
                THEN max_input_tokens
                ELSE IF ~model_info.raises /\ model_info.has /\ ~model_info.val.none
                THEN model_info.val
                ELSE IntVal(DefaultMaxTokens)
    /\ status.kind \in {"none", "Ready", "usage"}

\* The two states of the loop: awaiting user input (the top of the outer loop
\* and the prompt) and awaiting completion (the model call, the batch of tool
\* calls, the display of the result and reset_context()).
AwaitingInput == {"top", "input"}

AwaitingCompletion == {"call", "wait", "show", "reset", "reset_if", "reset_tok"}
                          \cup BatchPcs

\* C28 as stated: the wait for the model is left only with tool calls, with
\* a final text or by an interrupt.
C28_OnlyThreeExits ==
    [][(pc = "wait" /\ pc' # "wait") => rwi'.kind \in {"value", "interrupted"}]_vars

\* C28: the wait for the model is left with tool calls (the batch follows,
\* and after its last answer another call), with a final text, by an
\* interrupt, or by an error of the call; the last three end the turn, the
\* last two through reset_context(), and every turn that ends is back at the
\* top of the loop, never at the end of the run.
C28_ExitsOfCompletion ==
    [][/\ (pc = "wait" /\ pc' # "wait") =>
              \/ rwi'.kind = "value" /\ result'.tool_calls # <<>> /\ pc' = "check1"
              \/ rwi'.kind = "value" /\ result'.tool_calls = <<>> /\ pc' = "show"
              \/ rwi'.kind = "interrupted" /\ pc' = "reset"
              \/ rwi'.kind = "error" /\ pc' = "reset"
       /\ (pc \in BatchPcs /\ pc' \notin BatchPcs) =>
              \/ pc' = "call" /\ Len(answered') = Len(result.tool_calls)
              \/ pc' = "reset" /\ interrupted'
       /\ (pc = "call") => pc' \in {"call", "wait"}
       /\ (pc = "show") => pc' \in {"show", "top"}
       /\ (pc \in ResetPcs) => pc' \in ResetPcs \cup {"top"}
       /\ (pc \in AwaitingCompletion) => pc' \in AwaitingCompletion \cup {"top"}
       /\ (pc = "top") => pc' \in AwaitingInput
      ]_vars

\* A turn with a batch of tool calls and a follow-up call ended with the final
\* text and the loop is back at its top.
C28_Witness ==
    /\ pc = "top"
    /\ turn > 0
    /\ issued > 0
    /\ ~prevInterrupted
    /\ \E w \in Workers : workers[w].pc = "done" /\ w > 1

\* A line of whitespace only (the empty line included).
WhitespaceOnly(line) ==
    line # NoLine /\ \A k \in 1..Len(line) : line[k] \in {" ", "\t"}

\* The line is the word in some letter case.
InAnyCase(line, lowerWord, upperWord) ==
    /\ Len(line) = Len(lowerWord)
    /\ \A k \in 1..Len(line) : line[k] \in {lowerWord[k], upperWord[k]}

ExitOrQuit(line) ==
    \/ InAnyCase(line, <<"e", "x", "i", "t">>, <<"E", "X", "I", "T">>)
    \/ InAnyCase(line, <<"q", "u", "i", "t">>, <<"Q", "U", "I", "T">>)

\* C29: when the prompt returns a line of whitespace only, the loop goes to
\* its top without starting a model call and without touching the
\* conversation state, and from the top it goes to the prompt again; when the
\* line is exit or quit in any letter case the run ends without a model call.
C29_EmptyAndQuitInput ==
    [][/\ (pc = "input" /\ pc' # "input" /\ WhitespaceOnly(typed')) =>
              /\ pc' = "top"
              /\ UNCHANGED <<conv, nw, workers, req, current_input, turn>>
       /\ (pc = "input" /\ pc' # "input" /\ ExitOrQuit(typed')) =>
              /\ pc' = "exit"
              /\ UNCHANGED <<conv, nw, workers, req>>
       /\ (pc = "top" /\ pc' # "top") => (pc' = "input" /\ nw' = nw)
       /\ (pc = "exit") => (pc' = "exit" /\ nw' = nw)
      ]_vars

\* After a completed turn the user typed a tab and a space: the loop is at
\* its top with the conversation of that turn.
C29_Witness ==
    /\ pc = "top"
    /\ typed = <<"\t", " ">>
    /\ turn > 0
    /\ nw > 0
    /\ IF api = "completion" THEN Len(messages) > 1 ELSE previous_response_id # Null

\* How often an answer for the tool call id is recorded: tool messages of the
\* stateless history msgs, or outputs handed to the follow-up call.
AnswersFor(msgs, outs, id) ==
    IF api = "completion"
    THEN Cardinality({q \in 1..Len(msgs) : msgs[q].role = "tool" /\ msgs[q].id = id})
    ELSE Cardinality({q \in 1..Len(outs) : outs[q].call_id = id})

\* C31: when the loop is about to start the follow-up model call of a batch,
\* every tool call of the preceding result has been passed to add_tool_result
\* exactly once, and exactly one answer under its id is in the history
\* (stateless) or in the input of the follow-up call (stateful chain).
C31_EveryCallAnsweredOnce ==
    (pc = "call" /\ ~firstCall) =>
        /\ result.tool_calls # <<>>
        /\ \A k \in 1..Len(result.tool_calls) :
              /\ Cardinality({p \in 1..Len(answered) :
                                  answered[p] = result.tool_calls[k]}) = 1
              /\ AnswersFor(messages, current_input.outs,
                            result.tool_calls[k]) = 1

\* C32: in the stateless history, the history submitted with the first request
\* of a turn ends with a user message of that turn's input, whether the input
\* given to call() is a plain string or a multimodal list.
C32_FirstRequestEndsWithInput ==
    [][\A w \in Workers :
         (/\ api = "completion"
          /\ workers[w].pc = "start" /\ workers'[w].pc = "sent"
          /\ workers[w].first
          /\ workers[w].input.kind \in {"str", "list"}) =>
             /\ req'.hist = messages'
             /\ Last(req'.hist).role = "user"
             /\ Last(req'.hist).turn = workers[w].input.turn
      ]_vars

\* C33: between reset() at the top of the loop and the entry of the turn's
\* monitoring scope, where no handler is installed and no monitor of the new
\* turn exists, the flag is clear; so the first model call of the turn does
\* not start with a flag requested during an earlier turn.
C33_NoCarryOver ==
    (mon_pc \in {"prompt", "enter"}) => ~flag

\* The text a caught InterruptRequested would be turned into.
InterruptAsText == "Error: InterruptRequested: "

\* C34: an InterruptRequested raised by a tool is never recorded as an
\* error text: not as the result of a subagent session's tool execution, and
\* not as an answer in the main loop's history or output queue.
C34_InterruptNeverBecomesText ==
    /\ sub_result # InterruptAsText
    /\ \A q \in 1..Len(messages) :
          messages[q].role = "tool" => messages[q].content # InterruptAsText
    /\ \A q \in 1..Len(pending_tool_outputs) :
          pending_tool_outputs[q].output # InterruptAsText

\* C35: a flag set inside a turn stays set until reset() at the top of the
\* loop, and a turn whose model call ran (or was started) with the flag set
\* does not end by displaying that call's answer: it ends through
\* reset_context() as interrupted.
C35_InterruptNeverLost ==
    [][/\ (flag /\ pc # "top") => flag'
       /\ (pc = "show" /\ pc' = "top") => ~flagWhileRunning
       /\ (pc \in ResetPcs /\ pc' = "top" /\ flagWhileRunning /\ rwi.kind # "error")
              => interrupted
      ]_vars

=============================================================================
